---- MODULE Spec2Model ----
(***************************************************************************)
(* Model of the Modbus client library (package modbus): the client facade  *)
(* (client.go), the MBAP packager and TCP transporter (tcpclient), the     *)
(* RTU and ASCII serial transporters (rtuclient.go, asciiclient) and the   *)
(* serial port life cycle (serial.go).                                     *)
(*                                                                         *)
(* Bytes are naturals 0..255, frames are sequences of bytes.  A blocking   *)
(* call (mutex acquisition, port write, port read, sleep) ends one step:   *)
(* every action is "a blocking call returns, the code runs up to the next  *)
(* blocking call".  Time is a discrete clock `now`.                        *)
(***************************************************************************)
EXTENDS Integers, Sequences, FiniteSets, TLC

(* ------------------------------ bounds -------------------------------- *)
\* last instant of the discrete clock
MaxTime == 2
\* number of facade operations / Send calls issued in one behaviour
MaxCalls == 2
\* number of dials in one behaviour
MaxDials == 2
\* the idle timeout of a handler that has one, in clock ticks
IdleTicks == 2
\* mb.Timeout, the connect and read timeout of the handler, in clock ticks
Timeout == 1

Procs == {1, 2}

(* --------------------------- program constants ------------------------ *)
tcpProtocolIdentifier == 0
tcpHeaderSize == 7
tcpMaxLength == 260
rtuMinSize == 4
rtuMaxSize == 256
rtuExceptionSize == 5
asciiMinSize == 3
asciiMaxSize == 513
\* asciiEnd = "\r\n"
asciiEnd == <<13, 10>>

FuncCodeReadCoils == 1
FuncCodeReadDiscreteInputs == 2
FuncCodeReadHoldingRegisters == 3
FuncCodeReadInputRegisters == 4
FuncCodeWriteSingleCoil == 5
FuncCodeWriteSingleRegister == 6
FuncCodeWriteMultipleCoils == 15
FuncCodeWriteMultipleRegisters == 16
FuncCodeMaskWriteRegister == 22
FuncCodeReadWriteMultipleRegisters == 23
FuncCodeReadFIFOQueue == 24

\* the unit / slave id configured on the handler
SlaveID == 1

(* ------------------------------ bytes --------------------------------- *)
Min(a, b) == IF a < b THEN a ELSE b

\* binary.BigEndian.PutUint16
PutUint16(v) == <<(v \div 256) % 256, v % 256>>

\* binary.BigEndian.Uint16(b[i:]) with i a Go (0-based) offset
Uint16(b, i) == b[i + 1] * 256 + b[i + 2]

\* b[i:] with i a Go (0-based) offset
From(b, i) == SubSeq(b, i + 1, Len(b))

\* b[:k]
Take(b, k) == SubSeq(b, 1, k)

Zeros(k) == [i \in 1..k |-> 0]

\* dataBlock(value ...uint16)
RECURSIVE dataBlock(_)
dataBlock(value) ==
    IF value = <<>> THEN <<>>
    ELSE PutUint16(Head(value)) \o dataBlock(Tail(value))

\* dataBlockSuffix(suffix, value ...uint16)
dataBlockSuffix(suffix, value) ==
    dataBlock(value) \o <<Len(suffix) % 256>> \o suffix

(* ------------------------- errors and results ------------------------- *)
NoErr == "nil"
ErrInvalidQuantity == "ErrInvalidQuantity"
ErrInvalidData == "ErrInvalidData"
ErrInvalidResponse == "ErrInvalidResponse"
ErrProtocolError == "ErrProtocolError"
ErrShortFrame == "ErrShortFrame"
ErrModbus == "ModbusError"
ErrCancelled == "context cancelled"
ErrConnect == "connecting"
ErrWrite == "writing request"
ErrRead == "reading response"

\* what a facade operation returns: an error kind and the result bytes
\* (for a ModbusError: the function code and exception code it carries)
Result(err, bytes) == [err |-> err, results |-> bytes]
NoResult == Result("none", <<>>)
ModbusError(fc, exc) == [err |-> ErrModbus, results |-> <<>>, FunctionCode |-> fc, ExceptionCode |-> exc]

\* what Transporter.Send returns: an error kind and the response frame
SendResult(err, adu) == [err |-> err, adu |-> adu]
NoSend == SendResult("none", <<>>)

(* ---------------------------- MBAP packager --------------------------- *)
\* tcpPackager.Encode, given the counter value the atomic increment returned
tcpEncode(transactionId, pdu) ==
    PutUint16(transactionId % 65536)
        \o PutUint16(tcpProtocolIdentifier)
        \o PutUint16((1 + 1 + Len(pdu.Data)) % 65536)
        \o <<SlaveID>>
        \o <<pdu.FunctionCode>> \o pdu.Data

\* a Verify that forgets to compare the unit id
tcpVerifyNoUnit(aduRequest, aduResponse) ==
    IF Uint16(aduResponse, 0) # Uint16(aduRequest, 0) THEN ErrProtocolError
    ELSE IF Uint16(aduResponse, 2) # Uint16(aduRequest, 2) THEN ErrProtocolError
    ELSE NoErr

\* tcpPackager.Verify
tcpVerify(aduRequest, aduResponse) ==
    IF Uint16(aduResponse, 0) # Uint16(aduRequest, 0) THEN ErrProtocolError
    ELSE IF Uint16(aduResponse, 2) # Uint16(aduRequest, 2) THEN ErrProtocolError
    ELSE IF aduResponse[7] # aduRequest[7] THEN ErrProtocolError
    ELSE NoErr

\* tcpPackager.Decode: the error, and the PDU when there is none
tcpDecode(adu) ==
    LET length == Uint16(adu, 4)
        pduLength == Len(adu) - tcpHeaderSize
    IN  IF pduLength <= 0 \/ pduLength # (length - 1) % 65536
        THEN [err |-> ErrProtocolError, FunctionCode |-> 0, Data |-> <<>>]
        ELSE [err |-> NoErr, FunctionCode |-> adu[tcpHeaderSize + 1],
              Data |-> From(adu, tcpHeaderSize + 1)]

(* ------------------------------ checksums ----------------------------- *)
\* a ^ b on naturals
RECURSIVE Xor(_, _)
Xor(a, b) ==
    IF a = 0 THEN b
    ELSE IF b = 0 THEN a
    ELSE 2 * Xor(a \div 2, b \div 2) + ((a + b) % 2)

\* CRC-16/Modbus of one byte pushed into the register c, bit by bit
\* (polynomial 0xA001 reflected), k bits to go
RECURSIVE crcShift(_, _)
crcShift(c, k) ==
    IF k = 0 THEN c
    ELSE crcShift(IF c % 2 = 1 THEN Xor(c \div 2, 40961) ELSE c \div 2, k - 1)

\* crc.pushBytes of the bytes i..j of b, in order, into the register c
\* (the range is halved, and the register is looked at before the next byte
\* is pushed, to keep the evaluation shallow)
RECURSIVE crcPushBytes(_, _, _, _)
crcPushBytes(c, b, i, j) ==
    IF c < 0 \/ i > j THEN c
    ELSE IF i = j THEN crcShift(Xor(c, b[i]), 8)
    ELSE crcPushBytes(crcPushBytes(c, b, i, (i + j) \div 2), b, (i + j) \div 2 + 1, j)

\* crc.reset().pushBytes(b).value(): init 0xFFFF, no final xor
crc(b) == crcPushBytes(65535, b, 1, Len(b))

\* the sum of the bytes i..j of b modulo 256
RECURSIVE SumBytes(_, _, _)
SumBytes(b, i, j) ==
    IF i > j THEN 0
    ELSE IF i = j THEN b[i]
    ELSE (SumBytes(b, i, (i + j) \div 2) + SumBytes(b, (i + j) \div 2 + 1, j)) % 256

ByteSum(b) == SumBytes(b, 1, Len(b))

\* lrc.reset().pushBytes(b).value() of the client: two's complement of the sum
lrc(b) == (256 - ByteSum(b)) % 256

\* lrc8 of the simulator: uint8(-int8(sum))
lrc8(b) == (256 - ByteSum(b)) % 256

(* ------------------------------ hex text ------------------------------ *)
\* hexTable[n]
hexTable(n) == IF n < 10 THEN 48 + n ELSE 55 + n

\* writeHex: two upper-case hex characters per byte
writeHex(value) ==
    [i \in 1..(2 * Len(value)) |->
        IF i % 2 = 1 THEN hexTable(value[(i + 1) \div 2] \div 16)
        ELSE hexTable(value[i \div 2] % 16)]

\* the value of one hex character as encoding/hex reads it, -1 if it is none
fromHexChar(c) ==
    IF c \in 48..57 THEN c - 48
    ELSE IF c \in 65..70 THEN c - 55
    ELSE IF c \in 97..102 THEN c - 87
    ELSE -1

\* hex.Decode of the characters d: the bytes, and whether it failed (an odd
\* length or a character that is not a hex digit)
hexDecode(d) ==
    IF Len(d) % 2 = 1 \/ \E i \in 1..Len(d) : fromHexChar(d[i]) < 0
    THEN [err |-> TRUE, bytes |-> <<>>]
    ELSE [err |-> FALSE,
          bytes |-> [i \in 1..(Len(d) \div 2) |->
                        16 * fromHexChar(d[2 * i - 1]) + fromHexChar(d[2 * i])]]

\* readHex(data): the byte of the first two characters, -1 on error
readHex(d) ==
    IF Len(d) < 2 THEN -1
    ELSE IF fromHexChar(d[1]) < 0 \/ fromHexChar(d[2]) < 0 THEN -1
    ELSE 16 * fromHexChar(d[1]) + fromHexChar(d[2])

(* ------------------------- RTU and ASCII packagers -------------------- *)
ErrHex == "encoding/hex"
ErrServerFrame == "simulator frame error"

\* a decoded PDU, or the error of the Decode
Decoded(err, fc, d) == [err |-> err, FunctionCode |-> fc, Data |-> d]

\* an rtuPackager.Encode that writes the checksum high byte first
rtuEncodeBigEndian(pdu) ==
    LET length == Len(pdu.Data) + 4
        body == <<SlaveID, pdu.FunctionCode>> \o pdu.Data
    IN  IF length > rtuMaxSize THEN [err |-> ErrInvalidData, adu |-> <<>>]
        ELSE [err |-> NoErr, adu |-> body \o <<crc(body) \div 256, crc(body) % 256>>]

\* rtuPackager.Encode
rtuEncode(pdu) ==
    LET length == Len(pdu.Data) + 4
        body == <<SlaveID, pdu.FunctionCode>> \o pdu.Data
    IN  IF length > rtuMaxSize THEN [err |-> ErrInvalidData, adu |-> <<>>]
        ELSE [err |-> NoErr, adu |-> body \o <<crc(body) % 256, crc(body) \div 256>>]

\* rtuPackager.Verify
rtuVerify(aduRequest, aduResponse) ==
    IF Len(aduResponse) < rtuMinSize THEN ErrShortFrame
    ELSE IF aduResponse[1] # aduRequest[1] THEN ErrProtocolError
    ELSE NoErr

\* rtuPackager.Decode
rtuDecode(adu) ==
    LET length == Len(adu)
        checksum == adu[length] * 256 + adu[length - 1]
    IN  IF checksum # crc(Take(adu, length - 2))
        THEN Decoded(ErrProtocolError, 0, <<>>)
        ELSE Decoded(NoErr, adu[2], SubSeq(adu, 3, length - 2))

\* asciiPackager.Encode
asciiEncode(pdu) ==
    <<58>> \o writeHex(<<SlaveID, pdu.FunctionCode>>) \o writeHex(pdu.Data)
        \o writeHex(<<lrc(<<SlaveID, pdu.FunctionCode>> \o pdu.Data)>>) \o asciiEnd

\* asciiPackager.Verify
asciiVerify(aduRequest, aduResponse) ==
    LET length == Len(aduResponse) IN
    IF length < asciiMinSize + 6 THEN ErrShortFrame
    ELSE IF length % 2 # 1 THEN ErrProtocolError
    ELSE IF aduResponse[1] # 58 THEN ErrProtocolError
    ELSE IF SubSeq(aduResponse, length - 1, length) # asciiEnd THEN ErrProtocolError
    ELSE IF readHex(From(aduResponse, 1)) < 0 THEN ErrHex
    ELSE IF readHex(From(aduRequest, 1)) < 0 THEN ErrHex
    ELSE IF readHex(From(aduResponse, 1)) # readHex(From(aduRequest, 1)) THEN ErrProtocolError
    ELSE NoErr

\* asciiMinSize of the simulator: :AAFFDD..LRC\r\n
simAsciiMinSize == 11

\* asciiPackager.Decode of the simulator
simAsciiDecode(adu) ==
    IF Len(adu) < simAsciiMinSize THEN Decoded(ErrServerFrame, 0, <<>>)
    ELSE IF adu[1] # 58 THEN Decoded(ErrServerFrame, 0, <<>>)
    ELSE IF adu[Len(adu) - 1] # 13 \/ adu[Len(adu)] # 10 THEN Decoded(ErrServerFrame, 0, <<>>)
    ELSE LET h == hexDecode(SubSeq(adu, 2, Len(adu) - 2))
             binaryData == h.bytes
         IN  IF h.err THEN Decoded(ErrHex, 0, <<>>)
             ELSE IF Len(binaryData) < 3 THEN Decoded(ErrServerFrame, 0, <<>>)
             ELSE IF binaryData[Len(binaryData)] # lrc8(Take(binaryData, Len(binaryData) - 1))
             THEN Decoded(ErrServerFrame, 0, <<>>)
             ELSE Decoded(NoErr, binaryData[2], SubSeq(binaryData, 3, Len(binaryData) - 1))

\* asciiPackager.Decode of the client (called on frames Verify accepted)
asciiDecode(adu) ==
    LET address == readHex(From(adu, 1))
        fc == readHex(From(adu, 3))
        dataEnd == Len(adu) - 4
        d == hexDecode(SubSeq(adu, 6, dataEnd))
        lrcVal == readHex(From(adu, dataEnd))
    IN  IF address < 0 \/ fc < 0 \/ d.err \/ lrcVal < 0 THEN Decoded(ErrHex, 0, <<>>)
        ELSE IF lrcVal # lrc(<<address, fc>> \o d.bytes) THEN Decoded(ErrProtocolError, 0, <<>>)
        ELSE Decoded(NoErr, fc, d.bytes)

(* ---------------------------- client facade --------------------------- *)
Ops == {"ReadCoils", "ReadDiscreteInputs", "ReadHoldingRegisters", "ReadInputRegisters",
        "WriteSingleCoil", "WriteSingleRegister", "WriteMultipleCoils",
        "WriteMultipleRegisters", "MaskWriteRegister", "ReadWriteMultipleRegisters",
        "ReadFIFOQueue"}

\* the arguments of one facade call; an operation reads only its own
\* (quantity is readQuantity and address is readAddress for ReadWriteMultipleRegisters)
Args(op, address, quantity, value, writeQuantity) ==
    [op |-> op, address |-> address, quantity |-> quantity, value |-> value,
     andMask |-> 255, orMask |-> 1, writeAddress |-> 0,
     writeQuantity |-> writeQuantity, bytes |-> <<0, 3>>]

NoCall == Args("none", 0, 0, 0, 0)

\* a quantity guard whose upper limit is off by one
QuantityErrorLoose(quantity, max) ==
    IF quantity < 1 \/ quantity > max + 1 THEN ErrInvalidQuantity ELSE NoErr

\* if quantity < 1 || quantity > max { return ErrInvalidQuantity }
QuantityError(quantity, max) ==
    IF quantity < 1 \/ quantity > max THEN ErrInvalidQuantity ELSE NoErr

\* the argument guard at the head of each facade operation
ArgError(rq) ==
    CASE rq.op \in {"ReadCoils", "ReadDiscreteInputs"} -> QuantityError(rq.quantity, 2000)
      [] rq.op \in {"ReadHoldingRegisters", "ReadInputRegisters"} ->
            QuantityError(rq.quantity, 125)
      [] rq.op = "WriteSingleCoil" ->
            IF rq.value # 65280 /\ rq.value # 0 THEN ErrInvalidData ELSE NoErr
      [] rq.op = "WriteMultipleCoils" -> QuantityError(rq.quantity, 1968)
      [] rq.op = "WriteMultipleRegisters" -> QuantityError(rq.quantity, 123)
      [] rq.op = "ReadWriteMultipleRegisters" ->
            IF QuantityError(rq.quantity, 125) # NoErr THEN ErrInvalidQuantity
            ELSE QuantityError(rq.writeQuantity, 121)
      [] OTHER -> NoErr

FuncCodeOf(op) ==
    CASE op = "ReadCoils" -> FuncCodeReadCoils
      [] op = "ReadDiscreteInputs" -> FuncCodeReadDiscreteInputs
      [] op = "ReadHoldingRegisters" -> FuncCodeReadHoldingRegisters
      [] op = "ReadInputRegisters" -> FuncCodeReadInputRegisters
      [] op = "WriteSingleCoil" -> FuncCodeWriteSingleCoil
      [] op = "WriteSingleRegister" -> FuncCodeWriteSingleRegister
      [] op = "WriteMultipleCoils" -> FuncCodeWriteMultipleCoils
      [] op = "WriteMultipleRegisters" -> FuncCodeWriteMultipleRegisters
      [] op = "MaskWriteRegister" -> FuncCodeMaskWriteRegister
      [] op = "ReadWriteMultipleRegisters" -> FuncCodeReadWriteMultipleRegisters
      [] OTHER -> FuncCodeReadFIFOQueue

\* request := ProtocolDataUnit{FunctionCode: ..., Data: ...} of each operation
RequestPDU(rq) ==
    [FunctionCode |-> FuncCodeOf(rq.op),
     Data |->
        CASE rq.op \in {"ReadCoils", "ReadDiscreteInputs", "ReadHoldingRegisters",
                        "ReadInputRegisters"} -> dataBlock(<<rq.address, rq.quantity>>)
          [] rq.op \in {"WriteSingleCoil", "WriteSingleRegister"} ->
                dataBlock(<<rq.address, rq.value>>)
          [] rq.op \in {"WriteMultipleCoils", "WriteMultipleRegisters"} ->
                dataBlockSuffix(rq.bytes, <<rq.address, rq.quantity>>)
          [] rq.op = "MaskWriteRegister" ->
                dataBlock(<<rq.address, rq.andMask, rq.orMask>>)
          [] rq.op = "ReadWriteMultipleRegisters" ->
                dataBlockSuffix(rq.bytes, <<rq.address, rq.quantity,
                                            rq.writeAddress, rq.writeQuantity>>)
          [] OTHER -> dataBlock(<<rq.address>>)]

\* a responseError that leaves the exception code at zero
responseErrorNoCode(response) == ModbusError(response.FunctionCode, 0)

\* responseError
responseError(response) ==
    ModbusError(response.FunctionCode,
                IF Len(response.Data) > 0 THEN response.Data[1] ELSE 0)

\* client.send after Transporter.Send returned aduResponse without error:
\* Verify, Decode, function code check, empty data check.
\* Gives [err, results] on failure and [err |-> NoErr, pdu] on success.
clientSend(request, aduRequest, aduResponse) ==
    IF tcpVerify(aduRequest, aduResponse) # NoErr
    THEN Result(tcpVerify(aduRequest, aduResponse), <<>>)
    ELSE LET response == tcpDecode(aduResponse) IN
         IF response.err # NoErr THEN Result(response.err, <<>>)
         ELSE IF response.FunctionCode # request.FunctionCode THEN responseError(response)
         ELSE IF Len(response.Data) = 0 THEN Result(ErrInvalidResponse, <<>>)
         ELSE [err |-> NoErr, pdu |-> response]

\* the response shape checks of each facade operation, on the PDU send returned
ShapeResult(rq, Data) ==
    CASE rq.op \in {"ReadCoils", "ReadDiscreteInputs", "ReadHoldingRegisters",
                    "ReadInputRegisters", "ReadWriteMultipleRegisters"} ->
            IF Data[1] # Len(Data) - 1 THEN Result(ErrInvalidResponse, <<>>)
            ELSE Result(NoErr, From(Data, 1))
      [] rq.op \in {"WriteSingleCoil", "WriteSingleRegister"} ->
            IF Len(Data) # 4 THEN Result(ErrInvalidResponse, <<>>)
            ELSE IF rq.address # Uint16(Data, 0) THEN Result(ErrInvalidResponse, <<>>)
            ELSE IF rq.value # Uint16(Data, 2) THEN Result(ErrInvalidResponse, <<>>)
            ELSE Result(NoErr, From(Data, 2))
      [] rq.op \in {"WriteMultipleCoils", "WriteMultipleRegisters"} ->
            IF Len(Data) # 4 THEN Result(ErrInvalidResponse, <<>>)
            ELSE IF rq.address # Uint16(Data, 0) THEN Result(ErrInvalidResponse, <<>>)
            ELSE IF rq.quantity # Uint16(Data, 2) THEN Result(ErrInvalidResponse, <<>>)
            ELSE Result(NoErr, From(Data, 2))
      [] rq.op = "MaskWriteRegister" ->
            IF Len(Data) # 6 THEN Result(ErrInvalidResponse, <<>>)
            ELSE IF rq.address # Uint16(Data, 0) THEN Result(ErrInvalidResponse, <<>>)
            ELSE IF rq.andMask # Uint16(Data, 2) THEN Result(ErrInvalidResponse, <<>>)
            ELSE IF rq.orMask # Uint16(Data, 4) THEN Result(ErrInvalidResponse, <<>>)
            ELSE Result(NoErr, From(Data, 2))
      [] OTHER ->
            IF Len(Data) < 4 THEN Result(ErrInvalidResponse, <<>>)
            ELSE IF Uint16(Data, 0) # Len(Data) - 1 THEN Result(ErrInvalidResponse, <<>>)
            ELSE IF Uint16(Data, 2) > 31 THEN Result(ErrInvalidResponse, <<>>)
            ELSE Result(NoErr, From(Data, 4))

\* what the facade operation rq returns once Send has returned sent
OperationResult(rq, aduRequest, sent) ==
    IF sent.err # NoErr THEN Result(sent.err, <<>>)
    ELSE LET r == clientSend(RequestPDU(rq), aduRequest, sent.adu) IN
         IF r.err # NoErr THEN r ELSE ShapeResult(rq, r.pdu.Data)

(* ------------------------------- state -------------------------------- *)
VARIABLES
    kind,           \* which transporter the handler is: "tcp", "rtu" or "ascii"
    IdleTimeout,    \* mb.IdleTimeout in clock ticks (0: no idle close)
    mu,             \* mb.mu: 0 when free, else the caller holding it
    conn,           \* mb.conn / mb.port: 0 for nil, else the number of the dial that opened it
    closeTimer,     \* mb.closeTimer: made = 0 for nil; at = expiry instant, -1 when not armed
    lastActivity,   \* mb.lastActivity
    transactionID,  \* tcpPackager.transactionID
    now,            \* the clock
    fired,          \* closeIdle goroutines started by the timer and not yet run
    pc,             \* where each caller is in its facade operation / Send
    ctx,            \* ctx.Err() != nil for the context of each caller
    call,           \* the arguments of each caller's current (or last) operation
    aduRequest,     \* the request frame of each caller
    sendRes,        \* what Send last returned to each caller
    result,         \* what the facade operation last returned to each caller
    data,           \* Send's local buffer: the bytes read so far
    target,         \* Send's local length / targetLength
    deadline,       \* the instant at which the pending read times out, -1 for none
    wire,           \* requests written on the connection that the peer has not answered
    pend,           \* the parts of the responses the peer has sent that have not arrived yet
    rx,             \* bytes delivered to this end of the connection and not yet read
    dials,          \* number of connections opened so far
    ncalls,         \* number of calls each caller has issued so far
    closedBy,       \* what last closed a connection: "Close", "closeIdle" or "none"
    retAt,          \* the instant the last Send that wrote its request returned, -1 if none
    framing,        \* a PDU on its way through a packager: Encode, the wire, Decode
    sentID,         \* transaction id of the last request written to the TCP connection, -1 if none
    ds,             \* the simulator's DataStore
    dsConfig,       \* the DataStoreConfig the datastore was made from
    srvRequest,     \* the request PDU the simulator handled last
    srvResponse,    \* the response PDU it answered with
    writes,         \* number of write requests the simulator has been sent
    requests,       \* number of requests the simulator has been sent
    lastWrite,      \* the last write request (5, 6, 15, 16) that succeeded, if nothing was stored since
    dsMu,           \* ds.mu: how many goroutines hold the write lock and the read lock
    task,           \* the datastore method each connection goroutine is in, and its locals
    committed,      \* the writes that have returned, in the order they released ds.mu
    versions,       \* the contents the datastore had when a write returned, and at the start
    delayConfig,    \* ds.delayConfig: nil or the DelayConfigSet of the configuration
    delayCall,      \* the last call of GetDelayConfig or ApplyDelayWithOptions and its result
    stopChan,       \* TCPServer.stopChan is closed
    listener,       \* TCPServer.listener: "nil", "open" or "closed"
    wg,             \* the counter of TCPServer.wg
    stopPc,         \* where TCPServer.Stop is: "none", "close", "wait" or "returned"
    acceptPc,       \* where acceptLoop is: "none", "accept", "spawn" or "done"
    sconn,          \* the connections made to the TCP server, and their handleConnection
    nframes,        \* number of frames the clients have sent to the TCP server
    srvSerial,      \* the RTUServer or ASCIIServer: slaveID, stopChan, doneChan, Stop and serve
    srvPty,         \* its pty: closed, the bytes of the client not yet read, the frames written
    srvFrame,       \* the frame the serial server read last and what it did with it
    readWrite,      \* the ReadWriteMultipleRegisters request each connection goroutine is handling
    peerClosed      \* the connection (its dial number) that the peer has closed or reset, 0 if none

\* what no step of the client handler changes
store == <<dsMu, task, committed, versions>>
delayv == <<delayConfig, delayCall>>
tcpv == <<stopChan, listener, wg, stopPc, acceptPc, sconn, nframes>>
serialv == <<srvSerial, srvPty, srvFrame>>
handlerv == <<srvRequest, srvResponse, writes, requests, lastWrite>>
simv == <<store, delayv, tcpv, serialv, readWrite>>
srv == <<ds, dsConfig, srvRequest, srvResponse, writes, requests, lastWrite, simv>>
cfg == <<kind, IdleTimeout, peerClosed, framing, sentID, srv>>
life == <<conn, closeTimer, lastActivity, fired, dials, closedBy>>
net == <<wire, pend, rx>>
local == <<data, target, deadline>>
callv == <<ctx, call, aduRequest, transactionID, ncalls>>
ret == <<pc, mu, sendRes, result, retAt>>
vars == <<cfg, life, net, local, callv, ret, now>>

\* the state of the client handler, which no step of a simulator changes
client == <<kind, IdleTimeout, peerClosed, framing, sentID, life, net, local, callv, ret, now>>

\* what the steps of one part of the simulator leave alone
exceptStore == <<dsConfig, handlerv, delayv, tcpv, serialv, readWrite, client>>
exceptDelay == <<ds, dsConfig, handlerv, store, tcpv, serialv, readWrite, client>>
exceptTcp == <<dsConfig, store, delayv, serialv, readWrite, client>>
exceptSerial == <<dsConfig, store, delayv, tcpv, readWrite, client>>
exceptReadWrite == <<dsConfig, handlerv, delayv, tcpv, serialv, client>>

Serial == {"rtu", "ascii"}
InSend == {"connect", "write", "header", "body", "delay", "readmin", "readrest", "read"}

\* the handler after construction and as many Encodes as counters tells, all
\* of them written and answered
InitCounter(kinds, idles, counters) ==
    /\ kind \in kinds
    /\ IdleTimeout \in idles
    /\ peerClosed = 0
    /\ mu = 0
    /\ conn = 0
    /\ closeTimer = [made |-> 0, at |-> -1]
    /\ lastActivity = 0
    /\ transactionID \in counters
    /\ sentID = IF transactionID = 0 THEN -1 ELSE transactionID % 65536
    /\ now = 0
    /\ fired = 0
    /\ pc = [p \in Procs |-> "idle"]
    /\ ctx = [p \in Procs |-> FALSE]
    /\ call = [p \in Procs |-> NoCall]
    /\ aduRequest = [p \in Procs |-> <<>>]
    /\ sendRes = [p \in Procs |-> NoSend]
    /\ result = [p \in Procs |-> NoResult]
    /\ data = <<>>
    /\ target = 0
    /\ deadline = -1
    /\ wire = <<>>
    /\ pend = <<>>
    /\ rx = <<>>
    /\ dials = 0
    /\ ncalls = [p \in Procs |-> 0]
    /\ closedBy = "none"
    /\ retAt = -1

\* the handler after construction
InitWith(kinds, idles) == InitCounter(kinds, idles, {0})

(* ------------------------- connection life cycle ---------------------- *)
\* a lock that does not wait for the holder
TryLockNoWait == TRUE

\* mb.mu.Lock() returns: the mutex is free
TryLock == mu = 0

\* a check that never sees the cancellation
ctxErrNever(p) == FALSE

\* ctx.Err() != nil
ctxErr(p) == ctx[p]

\* a connect that dials whatever mb.conn is
mustDialAlways == TRUE

\* if mb.conn == nil / if mb.port == nil: the connection has to be opened
mustDial == conn = 0

\* connectContext / serialPort.connect with dial outcome ok: the new mb.conn
\* (0 when the dial failed and there was no connection)
connect(ok) ==
    /\ conn' = IF ~mustDial THEN conn ELSE IF ok THEN dials + 1 ELSE 0
    /\ dials' = IF mustDial /\ ok THEN dials + 1 ELSE dials
    /\ IF mustDial /\ ok THEN wire' = <<>> /\ pend' = <<>> /\ rx' = <<>>
       ELSE UNCHANGED net

\* the outcomes the dial can have
DialOutcomes == IF dials < MaxDials THEN {TRUE, FALSE} ELSE {FALSE}

\* a startCloseTimer that makes a timer at every Send
startCloseTimerNew ==
    IF IdleTimeout <= 0 THEN closeTimer
    ELSE [made |-> closeTimer.made + 1, at |-> now + IdleTimeout]

\* startCloseTimer: the new mb.closeTimer
startCloseTimer ==
    IF IdleTimeout <= 0 THEN closeTimer
    ELSE IF closeTimer.made = 0 THEN [made |-> 1, at |-> now + IdleTimeout]
    ELSE [closeTimer EXCEPT !.at = now + IdleTimeout]

\* a close that closes the connection and keeps the reference to it
closeKeepRef(by) ==
    IF conn # 0
    THEN wire' = <<>> /\ pend' = <<>> /\ rx' = <<>> /\ closedBy' = by /\ UNCHANGED conn
    ELSE UNCHANGED <<conn, net, closedBy>>

\* tcpTransporter.close / serialPort.close: close the connection and set it to nil
close(by) ==
    IF conn # 0
    THEN conn' = 0 /\ wire' = <<>> /\ pend' = <<>> /\ rx' = <<>> /\ closedBy' = by
    ELSE UNCHANGED <<conn, net, closedBy>>

\* a closeIdle that closes without looking at the last activity
idleExpiredAlways == TRUE

\* idle := time.Since(mb.lastActivity); idle >= mb.IdleTimeout
idleExpired == now - lastActivity >= IdleTimeout

\* the runtime timer expires and starts the closeIdle goroutine
TimerFire ==
    /\ closeTimer.at >= 0
    /\ now >= closeTimer.at
    /\ closeTimer' = [closeTimer EXCEPT !.at = -1]
    /\ fired' = fired + 1
    /\ UNCHANGED <<cfg, conn, lastActivity, dials, closedBy, net, local, callv, ret, now>>

\* closeIdle
closeIdle ==
    /\ fired > 0
    /\ TryLock
    /\ fired' = fired - 1
    /\ IF IdleTimeout <= 0 THEN UNCHANGED <<conn, net, closedBy>>
       ELSE IF idleExpired THEN close("closeIdle")
       ELSE UNCHANGED <<conn, net, closedBy>>
    /\ UNCHANGED <<cfg, closeTimer, lastActivity, dials, local, callv, ret, now>>

\* Connect (exported): lock, connect, unlock
Connect ==
    /\ TryLock
    /\ \E ok \in DialOutcomes : connect(ok)
    /\ UNCHANGED <<cfg, closeTimer, lastActivity, fired, closedBy, local, callv, ret, now>>

\* Close (exported): lock, close, unlock
Close ==
    /\ TryLock
    /\ conn # 0
    /\ close("Close")
    /\ UNCHANGED <<cfg, closeTimer, lastActivity, fired, dials, local, callv, ret, now>>

\* time passes
Tick ==
    /\ now < MaxTime
    /\ now' = now + 1
    /\ UNCHANGED <<cfg, life, net, local, callv, ret>>

\* the caller's context is cancelled while its call is in progress
Cancel(p) ==
    /\ pc[p] # "idle"
    /\ ~ctx[p]
    /\ ctx' = [ctx EXCEPT ![p] = TRUE]
    /\ UNCHANGED <<cfg, life, net, local, call, aduRequest, transactionID, ncalls, ret, now>>

(* ------------------------------ the peer ------------------------------ *)
\* an MBAP frame with the given header fields and body (function code and data)
TcpFrame(tid, pid, length, uid, body) ==
    PutUint16(tid) \o PutUint16(pid) \o PutUint16(length) \o <<uid>> \o body

\* the data of a well-formed response to the request PDU (fc, d); register and
\* coil values are zero
GoodData(fc, d) ==
    CASE fc \in {FuncCodeReadCoils, FuncCodeReadDiscreteInputs} ->
            <<(Uint16(d, 2) + 7) \div 8>> \o Zeros((Uint16(d, 2) + 7) \div 8)
      [] fc \in {FuncCodeReadHoldingRegisters, FuncCodeReadInputRegisters,
                 FuncCodeReadWriteMultipleRegisters} ->
            <<(2 * Uint16(d, 2)) % 256>> \o Zeros(2 * Uint16(d, 2))
      [] fc = FuncCodeMaskWriteRegister -> Take(d, 6)
      [] fc = FuncCodeReadFIFOQueue -> <<0, 5, 0, 1, 0, 0>>
      [] OTHER -> Take(d, 4)

ResponseKinds == {"ok", "tid", "pid", "uid", "len0", "len1", "lenmax", "lenover",
                  "exception", "count", "none"}

\* what a TCP peer sends back for the request frame r, by kind of response
TcpResponse(r, v) ==
    LET tid == Uint16(r, 0)
        pid == Uint16(r, 2)
        uid == r[7]
        fc == r[8]
        good == <<fc>> \o GoodData(fc, From(r, 8))
    IN  CASE v = "ok" -> TcpFrame(tid, pid, 1 + Len(good), uid, good)
          [] v = "tid" -> TcpFrame((tid + 1) % 65536, pid, 1 + Len(good), uid, good)
          [] v = "pid" -> TcpFrame(tid, pid + 1, 1 + Len(good), uid, good)
          [] v = "uid" -> TcpFrame(tid, pid, 1 + Len(good), (uid + 1) % 256, good)
          [] v = "len0" -> TcpFrame(tid, pid, 0, uid, <<fc, 0>>)
          [] v = "len1" -> TcpFrame(tid, pid, 1, uid, <<>>)
          [] v = "lenmax" ->
                TcpFrame(tid, pid, tcpMaxLength - tcpHeaderSize + 1, uid,
                         <<fc>> \o Zeros(tcpMaxLength - tcpHeaderSize - 1))
          [] v = "lenover" ->
                TcpFrame(tid, pid, tcpMaxLength - tcpHeaderSize + 2, uid,
                         <<fc>> \o Zeros(tcpMaxLength - tcpHeaderSize))
          [] v = "exception" -> TcpFrame(tid, pid, 3, uid, <<(fc + 128) % 256, 2>>)
          [] v = "function" ->
                \* the good response under the function code after the request's
                TcpFrame(tid, pid, 1 + Len(good), uid, <<(fc + 1) % 128>> \o Tail(good))
          [] v = "count" ->
                \* a byte count one above the good one, followed by that many bytes
                TcpFrame(tid, pid, 3 + good[2] + 1, uid,
                         <<fc, good[2] + 1>> \o Zeros(good[2] + 1))
          [] OTHER -> <<>>

\* the RTU frames of ReadHoldingRegisters(0, 1) for slave 1, its response
\* (register value 0x1234) and its exception response, with their CRC
rtuRequestFrame == <<1, 3, 0, 0, 0, 1, 132, 10>>
rtuResponseFrame == <<1, 3, 2, 18, 52, 181, 51>>
rtuExceptionFrame == <<1, 131, 2, 192, 241>>

\* the ASCII frames ":010300000001FB\r\n" and ":0103021234B4\r\n"
asciiRequestFrame == <<58, 48, 49, 48, 51, 48, 48, 48, 48, 48, 48, 48, 49, 70, 66, 13, 10>>
asciiResponseFrame == <<58, 48, 49, 48, 51, 48, 50, 49, 50, 51, 52, 66, 52, 13, 10>>

\* what the peer sends back for the request frame r
Response(r, v) ==
    CASE kind = "tcp" -> TcpResponse(r, v)
      [] kind = "rtu" ->
            IF v = "ok" THEN rtuResponseFrame
            ELSE IF v = "exception" THEN rtuExceptionFrame ELSE <<>>
      [] OTHER -> IF v = "ok" THEN asciiResponseFrame ELSE <<>>

\* where a response sent in parts is cut: after the MBAP header; after the
\* first bytes of a serial frame (fewer than rtuMinSize) and again after
\* rtuExceptionSize bytes
ChunkSize == IF kind = "tcp" THEN tcpHeaderSize ELSE rtuMinSize - 1

\* the frame f as the parts in which it will arrive
Parts(f, split) ==
    IF f = <<>> THEN <<>>
    ELSE IF ~split \/ Len(f) <= ChunkSize THEN <<f>>
    ELSE IF kind = "tcp" \/ Len(f) <= rtuExceptionSize
    THEN <<Take(f, ChunkSize), From(f, ChunkSize)>>
    ELSE <<Take(f, ChunkSize), SubSeq(f, ChunkSize + 1, rtuExceptionSize),
           From(f, rtuExceptionSize)>>

\* the peer answers (or, for "none", drops) the oldest request it has received;
\* the response will arrive whole or in parts
PeerRespond(v, split) ==
    /\ wire # <<>>
    /\ pend' = pend \o Parts(Response(Head(wire), v), split)
    /\ wire' = Tail(wire)
    /\ UNCHANGED <<cfg, life, rx, local, callv, ret, now>>

\* the next part of the response bytes in flight reaches this end
PeerDeliver ==
    /\ pend # <<>>
    /\ rx' = rx \o Head(pend)
    /\ pend' = Tail(pend)
    /\ UNCHANGED <<cfg, life, wire, local, callv, ret, now>>

(* ------------------------------- calls -------------------------------- *)
\* the number of calls issued so far
Calls == ncalls[1] + ncalls[2]

\* Send returns sent to caller p (the deferred mb.mu.Unlock() runs) and the
\* facade operation of p returns; written tells whether the request was written
Return(p, sent, written) ==
    /\ pc' = [pc EXCEPT ![p] = "idle"]
    /\ mu' = 0
    /\ sendRes' = [sendRes EXCEPT ![p] = sent]
    /\ result' = [result EXCEPT ![p] =
                    IF kind = "tcp" THEN OperationResult(call[p], aduRequest[p], sent)
                    ELSE Result(sent.err, sent.adu)]
    /\ retAt' = IF written THEN now ELSE retAt

\* Send goes on, holding the mutex, to its next blocking call
Goto(p, l) ==
    /\ pc' = [pc EXCEPT ![p] = l]
    /\ mu' = p
    /\ UNCHANGED <<sendRes, result, retAt>>

\* an increment that loses the addition
AddUint32Lost(counter, delta) == counter

\* atomic.AddUint32(&mb.transactionID, 1): the new value
AddUint32(counter, delta) == counter + delta

\* a facade operation is called on the TCP client with arguments rq: the
\* argument guard, then client.send up to the call of Send (Encode
\* increments the transaction counter, whose uint16 part is the transaction
\* id; the counter stays far below 2^32 within MaxCalls)
Operation(p, rq) ==
    /\ kind = "tcp"
    /\ pc[p] = "idle"
    /\ Calls < MaxCalls
    /\ ncalls' = [ncalls EXCEPT ![p] = @ + 1]
    /\ call' = [call EXCEPT ![p] = rq]
    /\ ctx' = [ctx EXCEPT ![p] = FALSE]
    /\ IF ArgError(rq) # NoErr
       THEN /\ result' = [result EXCEPT ![p] = Result(ArgError(rq), <<>>)]
            /\ sendRes' = [sendRes EXCEPT ![p] = NoSend]
            /\ UNCHANGED <<pc, mu, retAt, aduRequest, transactionID>>
       ELSE /\ transactionID' = AddUint32(transactionID, 1)
            /\ aduRequest' = [aduRequest EXCEPT ![p] =
                                tcpEncode(transactionID', RequestPDU(rq))]
            /\ pc' = [pc EXCEPT ![p] = "lock"]
            /\ UNCHANGED <<mu, sendRes, result, retAt>>
    /\ UNCHANGED <<cfg, life, net, local, now>>

\* Send is called on a serial transporter with the request frame of the kind
SendCall(p) ==
    /\ kind \in Serial
    /\ pc[p] = "idle"
    /\ Calls < MaxCalls
    /\ ncalls' = [ncalls EXCEPT ![p] = @ + 1]
    /\ call' = [call EXCEPT ![p] = Args("Send", 0, 1, 0, 0)]
    /\ ctx' = [ctx EXCEPT ![p] = FALSE]
    /\ aduRequest' = [aduRequest EXCEPT ![p] =
                        IF kind = "rtu" THEN rtuRequestFrame ELSE asciiRequestFrame]
    /\ pc' = [pc EXCEPT ![p] = "lock"]
    /\ UNCHANGED <<transactionID, mu, sendRes, result, retAt, cfg, life, net, local, now>>

(* ----------------------- Send: the common beginning ------------------- *)
\* Send: the mutex is acquired; context check before starting; connect is called
Begin(p) ==
    /\ pc[p] = "lock"
    /\ TryLock
    /\ IF ctxErr(p) THEN Return(p, SendResult(ErrCancelled, <<>>), FALSE)
       ELSE Goto(p, "connect")
    /\ UNCHANGED <<cfg, life, net, local, callv, now>>

\* Send: connectContext / connect returns (the dial, if there was one, with
\* outcome ok; DialContext fails when its context is cancelled); RTU and ASCII check the context; lastActivity is set, the close
\* timer started, TCP sets the connection deadline; the request write is called
Connected(p, ok) ==
    /\ pc[p] = "connect"
    /\ (kind = "tcp" /\ mustDial /\ ctx[p]) => ~ok
    /\ connect(ok)
    /\ IF conn' = 0
       THEN /\ Return(p, SendResult(IF kind = "tcp" /\ ctx[p] THEN ErrCancelled
                                    ELSE ErrConnect, <<>>), FALSE)
            /\ UNCHANGED <<closeTimer, lastActivity, local>>
       ELSE IF kind \in Serial /\ ctxErr(p)
       THEN /\ Return(p, SendResult(ErrCancelled, <<>>), FALSE)
            /\ UNCHANGED <<closeTimer, lastActivity, local>>
       ELSE /\ lastActivity' = now
            /\ closeTimer' = startCloseTimer
            /\ deadline' = IF kind = "tcp" /\ Timeout > 0 THEN now + Timeout ELSE -1
            /\ Goto(p, "write")
            /\ UNCHANGED <<data, target>>
    /\ UNCHANGED <<cfg, fired, closedBy, callv, now>>

\* calculateResponseLength
calculateResponseLength(adu) ==
    LET count == Uint16(adu, 4) IN
    CASE adu[2] \in {FuncCodeReadDiscreteInputs, FuncCodeReadCoils} ->
            rtuMinSize + 1 + count \div 8 + (IF count % 8 # 0 THEN 1 ELSE 0)
      [] adu[2] \in {FuncCodeReadInputRegisters, FuncCodeReadHoldingRegisters,
                     FuncCodeReadWriteMultipleRegisters} -> rtuMinSize + 1 + count * 2
      [] adu[2] \in {FuncCodeWriteSingleCoil, FuncCodeWriteMultipleCoils,
                     FuncCodeWriteSingleRegister, FuncCodeWriteMultipleRegisters} ->
            rtuMinSize + 4
      [] adu[2] = FuncCodeMaskWriteRegister -> rtuMinSize + 6
      [] OTHER -> rtuMinSize

\* Send: the request write returns (ok: without error).  TCP calls the header
\* read.  RTU checks the context and sleeps calculateDelay.  ASCII checks the
\* context (after the write and at the head of the read loop) and calls Read.
Written(p, ok) ==
    /\ pc[p] = "write"
    /\ IF ~ok
       THEN /\ Return(p, SendResult(ErrWrite, <<>>), FALSE)
            /\ UNCHANGED <<wire, local, sentID>>
       ELSE /\ wire' = Append(wire, aduRequest[p])
            /\ sentID' = IF kind = "tcp" THEN Uint16(aduRequest[p], 0) ELSE sentID
            /\ IF kind = "tcp"
               THEN /\ Goto(p, "header")
                    /\ data' = <<>>
                    /\ UNCHANGED <<target, deadline>>
               ELSE IF ctxErr(p)
               THEN /\ Return(p, SendResult(ErrCancelled, <<>>), TRUE)
                    /\ UNCHANGED local
               ELSE IF kind = "rtu"
               THEN /\ Goto(p, "delay")
                    /\ target' = calculateResponseLength(aduRequest[p])
                    /\ UNCHANGED <<data, deadline>>
               ELSE /\ Goto(p, "read")
                    /\ data' = <<>>
                    /\ deadline' = now + Timeout
                    /\ UNCHANGED target
    /\ UNCHANGED <<kind, IdleTimeout, peerClosed, framing, srv, life, pend, rx, callv, now>>

(* ------------------------------ TCP reads ----------------------------- *)
\* if length <= 0 {...}; if length > (tcpMaxLength - (tcpHeaderSize - 1)) {...}
tcpLengthError(length) ==
    length <= 0 \/ length > tcpMaxLength - (tcpHeaderSize - 1)

\* flush: one Read into the tcpMaxLength buffer under a read deadline of now.
\* The numbers of bytes it can take from the pending bytes b: none (the
\* deadline has passed when the read starts) or what is there, up to the buffer
flush(b) == {0, Min(Len(b), tcpMaxLength)}

\* the read timed out (or the deadline had passed when it was called)
TimedOut == deadline >= 0 /\ now >= deadline

\* Send: io.ReadFull of the header returns; the length checks; flush and
\* protocol error, or the body read is called (a body of no byte is read at once)
TcpHeader(p) ==
    /\ kind = "tcp"
    /\ pc[p] = "header"
    /\ \/ /\ Len(rx) >= tcpHeaderSize
          /\ LET hdr == Take(rx, tcpHeaderSize)
                 rest == From(rx, tcpHeaderSize)
                 length == Uint16(hdr, 4)
             IN  IF tcpLengthError(length)
                 THEN /\ \E k \in flush(rest) : rx' = From(rest, k)
                      /\ Return(p, SendResult(ErrProtocolError, <<>>), TRUE)
                      /\ UNCHANGED local
                 ELSE IF length + tcpHeaderSize - 1 = tcpHeaderSize
                 THEN /\ rx' = rest
                      /\ Return(p, SendResult(NoErr, hdr), TRUE)
                      /\ UNCHANGED local
                 ELSE /\ rx' = rest
                      /\ data' = hdr
                      /\ target' = length + tcpHeaderSize - 1
                      /\ Goto(p, "body")
                      /\ UNCHANGED deadline
       \/ /\ TimedOut
          /\ rx' = IF Len(rx) < tcpHeaderSize THEN <<>> ELSE rx
          /\ Return(p, SendResult(ErrRead, <<>>), TRUE)
          /\ UNCHANGED local
    /\ UNCHANGED <<cfg, life, wire, pend, callv, now>>

\* Send: io.ReadFull of the body returns, and Send returns the frame
TcpBody(p) ==
    /\ kind = "tcp"
    /\ pc[p] = "body"
    /\ LET want == target - tcpHeaderSize IN
       \/ /\ Len(rx) >= want
          /\ rx' = From(rx, want)
          /\ Return(p, SendResult(NoErr, data \o Take(rx, want)), TRUE)
       \/ /\ TimedOut
          /\ rx' = IF Len(rx) < want THEN <<>> ELSE rx
          /\ Return(p, SendResult(ErrRead, <<>>), TRUE)
    /\ UNCHANGED <<cfg, life, wire, pend, local, callv, now>>

(* ----------------------------- serial reads --------------------------- *)
\* a Read that takes no notice of the capacity of its buffer
PortReadAll(c) ==
    IF Len(rx) > 0 THEN {Len(rx)}
    ELSE IF TimedOut THEN {0} ELSE {}

\* mb.port.Read into a buffer of capacity c: the byte counts it can return.
\* It returns what has arrived, up to c, and 0 when the read timeout elapses
\* with nothing to read
PortRead(c) ==
    IF Len(rx) > 0 THEN {Min(Len(rx), c)}
    ELSE IF TimedOut THEN {0} ELSE {}

\* aduRequest[1] & 0x80
functionFail(adu) == IF adu[2] >= 128 THEN 128 ELSE 0

\* switch data[1] { case function: ...; case functionFail: ...; default: ... }
targetLength(adu, d, bytesToRead) ==
    IF d[2] = adu[2] THEN bytesToRead
    ELSE IF d[2] = functionFail(adu) THEN rtuExceptionSize
    ELSE Len(d)

\* RTU Send: the sleep returns; context check; the read timeout is set; the
\* first Read of the minimum-length loop is called
RtuDelayed(p) ==
    /\ kind = "rtu"
    /\ pc[p] = "delay"
    /\ IF ctxErr(p)
       THEN /\ Return(p, SendResult(ErrCancelled, <<>>), TRUE)
            /\ UNCHANGED local
       ELSE /\ data' = <<>>
            /\ deadline' = now + Timeout
            /\ Goto(p, "readmin")
            /\ UNCHANGED target
    /\ UNCHANGED <<cfg, life, net, callv, now>>

\* RTU Send: a Read of the loop `for n < rtuMinSize` returns
RtuReadMin(p) ==
    /\ kind = "rtu"
    /\ pc[p] = "readmin"
    /\ \E nn \in PortRead(rtuMaxSize - Len(data)) :
        LET d == data \o Take(rx, nn)
            tl == targetLength(aduRequest[p], d, target)
        IN  /\ rx' = From(rx, nn)
            /\ IF nn = 0
               THEN Return(p, SendResult(ErrRead, <<>>), TRUE) /\ UNCHANGED local
               ELSE IF Len(d) < rtuMinSize
               THEN IF ctxErr(p)
                    THEN Return(p, SendResult(ErrCancelled, <<>>), TRUE) /\ UNCHANGED local
                    ELSE /\ data' = d
                         /\ deadline' = now + Timeout
                         /\ Goto(p, "readmin")
                         /\ UNCHANGED target
               ELSE IF tl > rtuMinSize /\ tl <= rtuMaxSize /\ Len(d) < tl
               THEN IF ctxErr(p)
                    THEN Return(p, SendResult(ErrCancelled, <<>>), TRUE) /\ UNCHANGED local
                    ELSE /\ data' = d
                         /\ target' = tl
                         /\ deadline' = now + Timeout
                         /\ Goto(p, "readrest")
               ELSE Return(p, SendResult(NoErr, d), TRUE) /\ UNCHANGED local
    /\ UNCHANGED <<cfg, life, wire, pend, callv, now>>

\* RTU Send: a Read of the loop `for n < targetLength` returns
RtuReadRest(p) ==
    /\ kind = "rtu"
    /\ pc[p] = "readrest"
    /\ \E nn \in PortRead(target - Len(data)) :
        LET d == data \o Take(rx, nn) IN
            /\ rx' = From(rx, nn)
            /\ IF nn = 0
               THEN Return(p, SendResult(ErrRead, <<>>), TRUE) /\ UNCHANGED local
               ELSE IF Len(d) < target
               THEN IF ctxErr(p)
                    THEN Return(p, SendResult(ErrCancelled, <<>>), TRUE) /\ UNCHANGED local
                    ELSE /\ data' = d
                         /\ deadline' = now + Timeout
                         /\ Goto(p, "readrest")
                         /\ UNCHANGED target
               ELSE Return(p, SendResult(NoErr, d), TRUE) /\ UNCHANGED local
    /\ UNCHANGED <<cfg, life, wire, pend, callv, now>>

\* the buffer ends with asciiEnd
EndsFrame(d) == SubSeq(d, Len(d) - Len(asciiEnd) + 1, Len(d)) = asciiEnd

\* ASCII Send: a Read of the response loop returns
AsciiRead(p) ==
    /\ kind = "ascii"
    /\ pc[p] = "read"
    /\ \E nn \in PortRead(asciiMaxSize - Len(data)) :
        LET d == data \o Take(rx, nn) IN
            /\ rx' = From(rx, nn)
            /\ IF Len(d) >= asciiMaxSize \/ nn = 0
               THEN Return(p, SendResult(NoErr, d), TRUE) /\ UNCHANGED local
               ELSE IF Len(d) > asciiMinSize /\ EndsFrame(d)
               THEN Return(p, SendResult(NoErr, d), TRUE) /\ UNCHANGED local
               ELSE IF ctxErr(p)
               THEN Return(p, SendResult(ErrCancelled, <<>>), TRUE) /\ UNCHANGED local
               ELSE /\ data' = d
                    /\ deadline' = now + Timeout
                    /\ Goto(p, "read")
                    /\ UNCHANGED target

    /\ UNCHANGED <<cfg, life, wire, pend, callv, now>>

(* --------------------------- specifications --------------------------- *)
\* the request of the transport specifications: ReadHoldingRegisters(0, 1)
ReadOne == Args("ReadHoldingRegisters", 0, 1, 0, 0)

Kinds == {"tcp", "rtu", "ascii"}

\* number of requests the simulator is sent
MaxRequests == 2

(* ------------------------------ simulator ----------------------------- *)
\* modbus.ExceptionCode*
ExceptionCodeIllegalFunction == 1
ExceptionCodeIllegalDataAddress == 2
ExceptionCodeIllegalDataValue == 3

maxAddress == 65536

PDU(fc, d) == [FunctionCode |-> fc, Data |-> d]
NoPDU == PDU(0, <<>>)

\* a & b of two uint16
RECURSIVE And(_, _)
And(a, b) ==
    IF a = 0 \/ b = 0 THEN 0
    ELSE 2 * And(a \div 2, b \div 2) + (IF a % 2 = 1 /\ b % 2 = 1 THEN 1 ELSE 0)

\* a | b of two uint16
Or(a, b) == a + b - And(a, b)

\* the four banks of 65536 values each, kept as what differs from the zero
\* value: the addresses of the bits that are set, the registers that are not 0
DataStore(coils, discreteInputs, holdingRegs, inputRegs) ==
    [coils |-> coils, discreteInputs |-> discreteInputs,
     holdingRegs |-> holdingRegs, inputRegs |-> inputRegs]

\* bank[address] of a register bank
RegAt(bank, address) == IF address \in DOMAIN bank THEN bank[address] ELSE 0

\* for i < len(values): bank[address+i] = values[i], on a bank of bits
SetBits(bank, address, values) ==
    LET range == {(address + i - 1) % 65536 : i \in 1..Len(values)}
    IN  (bank \ range) \cup {a \in range : values[((a - address) % 65536) + 1]}

\* for i < len(values): bank[address+i] = values[i], on a bank of registers
SetRegs(bank, address, values) ==
    LET range == {(address + i - 1) % 65536 : i \in 1..Len(values)}
        val(a) == values[((a - address) % 65536) + 1]
        dom == (DOMAIN bank \ range) \cup {a \in range : val(a) # 0}
    IN  [a \in dom |-> IF a \in range THEN val(a) ELSE bank[a]]

\* a DataStoreConfig: initial values by address
Config(coils, discreteInputs, holdingRegs, inputRegs) ==
    [Coils |-> coils, DiscreteInputs |-> discreteInputs,
     HoldingRegs |-> holdingRegs, InputRegs |-> inputRegs]

NoConfig == Config({}, {}, <<>>, <<>>)

\* NewDataStore
NewDataStore(config) ==
    DataStore(config.Coils, config.DiscreteInputs,
              [a \in {x \in DOMAIN config.HoldingRegs : config.HoldingRegs[x] # 0}
                    |-> config.HoldingRegs[a]],
              [a \in {x \in DOMAIN config.InputRegs : config.InputRegs[x] # 0}
                    |-> config.InputRegs[a]])

\* a validateRange that adds address and quantity as uint16
validateRange16(address, quantity) ==
    quantity = 0 \/ (address + quantity) % 65536 > maxAddress

\* DataStore.validateRange: whether it returns an error
validateRange(address, quantity) ==
    quantity = 0 \/ address + quantity > maxAddress

\* what a datastore read returns
ReadResult(err, values) == [err |-> err, values |-> values]

\* what a datastore write returns, with the datastore after it
WriteResult(err, d) == [err |-> err, ds |-> d]

\* DataStore.ReadCoils
ReadCoils(d, address, quantity) ==
    IF validateRange(address, quantity) THEN ReadResult(TRUE, <<>>)
    ELSE ReadResult(FALSE, [i \in 1..quantity |-> ((address + i - 1) % 65536) \in d.coils])

\* DataStore.ReadDiscreteInputs
ReadDiscreteInputs(d, address, quantity) ==
    IF validateRange(address, quantity) THEN ReadResult(TRUE, <<>>)
    ELSE ReadResult(FALSE,
            [i \in 1..quantity |-> ((address + i - 1) % 65536) \in d.discreteInputs])

\* DataStore.ReadHoldingRegisters
ReadHoldingRegisters(d, address, quantity) ==
    IF validateRange(address, quantity) THEN ReadResult(TRUE, <<>>)
    ELSE ReadResult(FALSE,
            [i \in 1..quantity |-> RegAt(d.holdingRegs, (address + i - 1) % 65536)])

\* DataStore.ReadInputRegisters
ReadInputRegisters(d, address, quantity) ==
    IF validateRange(address, quantity) THEN ReadResult(TRUE, <<>>)
    ELSE ReadResult(FALSE,
            [i \in 1..quantity |-> RegAt(d.inputRegs, (address + i - 1) % 65536)])

\* DataStore.WriteSingleCoil
WriteSingleCoil(d, address, value) ==
    WriteResult(FALSE, [d EXCEPT !.coils = SetBits(@, address, <<value>>)])

\* DataStore.WriteMultipleCoils
WriteMultipleCoils(d, address, values) ==
    IF validateRange(address, Len(values) % 65536) THEN WriteResult(TRUE, d)
    ELSE WriteResult(FALSE, [d EXCEPT !.coils = SetBits(@, address, values)])

\* a WriteSingleRegister that stores into the input registers
WriteSingleRegisterInput(d, address, value) ==
    WriteResult(FALSE, [d EXCEPT !.inputRegs = SetRegs(@, address, <<value>>)])

\* DataStore.WriteSingleRegister
WriteSingleRegister(d, address, value) ==
    WriteResult(FALSE, [d EXCEPT !.holdingRegs = SetRegs(@, address, <<value>>)])

\* DataStore.WriteMultipleRegisters
WriteMultipleRegisters(d, address, values) ==
    IF validateRange(address, Len(values) % 65536) THEN WriteResult(TRUE, d)
    ELSE WriteResult(FALSE, [d EXCEPT !.holdingRegs = SetRegs(@, address, values)])

\* DataStore.MaskWriteRegister:
\* result = (current AND andMask) OR (orMask AND (NOT andMask))
MaskWriteRegister(d, address, andMask, orMask) ==
    LET current == RegAt(d.holdingRegs, address)
        masked == Or(And(current, andMask), And(orMask, 65535 - andMask))
    IN  WriteResult(FALSE, [d EXCEPT !.holdingRegs = SetRegs(@, address, <<masked>>)])

\* newExceptionResponse: functionCode | 0x80
newExceptionResponse(functionCode, exceptionCode) ==
    PDU(IF functionCode < 128 THEN functionCode + 128 ELSE functionCode, <<exceptionCode>>)

\* the bit of weight 2^bitIndex that value i (from 0) of n puts into its byte
BitOf(values, n, i) ==
    IF i < n /\ values[i + 1] THEN 2 ^ (i % 8) ELSE 0

\* the byte count, then the first n of the values packed LSB first
bitsPacked(values, n, byteCount) ==
    <<byteCount % 256>> \o
    [k \in 1..byteCount |->
        BitOf(values, n, 8 * k - 8) + BitOf(values, n, 8 * k - 7)
        + BitOf(values, n, 8 * k - 6) + BitOf(values, n, 8 * k - 5)
        + BitOf(values, n, 8 * k - 4) + BitOf(values, n, 8 * k - 3)
        + BitOf(values, n, 8 * k - 2) + BitOf(values, n, 8 * k - 1)]

\* a boolsToBytes that leaves the last value out
boolsToBytesButLast(values) ==
    bitsPacked(values, Len(values) - 1, (Len(values) + 7) \div 8)

\* boolsToBytes: the byte count, then the bits packed LSB first
boolsToBytes(values) ==
    bitsPacked(values, Len(values), (Len(values) + 7) \div 8)

\* bytesToBools
bytesToBools(d, quantity) ==
    [i \in 1..quantity |-> (d[(i - 1) \div 8 + 1] \div (2 ^ ((i - 1) % 8))) % 2 = 1]

\* registersToBytes: the byte count, then each register big-endian
registersToBytes(registers) ==
    <<(2 * Len(registers)) % 256>> \o
    [k \in 1..(2 * Len(registers)) |->
        IF k % 2 = 1 THEN registers[(k + 1) \div 2] \div 256 ELSE registers[k \div 2] % 256]

\* bytesToRegisters
bytesToRegisters(d) ==
    [i \in 1..(Len(d) \div 2) |-> d[2 * i - 1] * 256 + d[2 * i]]

\* what a handler returns: the response and the datastore after the request
Handled(pdu, d) == [pdu |-> pdu, ds |-> d]

\* a quantity check that lets quantity 0 through
QuantityAbove(quantity, limit) == quantity > limit

\* if quantity < 1 || quantity > limit
QuantityOutside(quantity, limit) == quantity < 1 \/ quantity > limit

\* Handler.handleReadCoils
handleReadCoils(d, req) ==
    LET address == Uint16(req.Data, 0)
        quantity == Uint16(req.Data, 2)
        r == ReadCoils(d, address, quantity)
    IN  IF Len(req.Data) < 4
        THEN Handled(newExceptionResponse(req.FunctionCode, ExceptionCodeIllegalDataValue), d)
        ELSE IF QuantityOutside(quantity, 2000)
        THEN Handled(newExceptionResponse(req.FunctionCode, ExceptionCodeIllegalDataValue), d)
        ELSE IF r.err
        THEN Handled(newExceptionResponse(req.FunctionCode, ExceptionCodeIllegalDataAddress), d)
        ELSE Handled(PDU(req.FunctionCode, boolsToBytes(r.values)), d)

\* Handler.handleReadDiscreteInputs
handleReadDiscreteInputs(d, req) ==
    LET address == Uint16(req.Data, 0)
        quantity == Uint16(req.Data, 2)
        r == ReadDiscreteInputs(d, address, quantity)
    IN  IF Len(req.Data) < 4
        THEN Handled(newExceptionResponse(req.FunctionCode, ExceptionCodeIllegalDataValue), d)
        ELSE IF QuantityOutside(quantity, 2000)
        THEN Handled(newExceptionResponse(req.FunctionCode, ExceptionCodeIllegalDataValue), d)
        ELSE IF r.err
        THEN Handled(newExceptionResponse(req.FunctionCode, ExceptionCodeIllegalDataAddress), d)
        ELSE Handled(PDU(req.FunctionCode, boolsToBytes(r.values)), d)

\* Handler.handleReadHoldingRegisters
handleReadHoldingRegisters(d, req) ==
    LET address == Uint16(req.Data, 0)
        quantity == Uint16(req.Data, 2)
        r == ReadHoldingRegisters(d, address, quantity)
    IN  IF Len(req.Data) < 4
        THEN Handled(newExceptionResponse(req.FunctionCode, ExceptionCodeIllegalDataValue), d)
        ELSE IF QuantityOutside(quantity, 125)
        THEN Handled(newExceptionResponse(req.FunctionCode, ExceptionCodeIllegalDataValue), d)
        ELSE IF r.err
        THEN Handled(newExceptionResponse(req.FunctionCode, ExceptionCodeIllegalDataAddress), d)
        ELSE Handled(PDU(req.FunctionCode, registersToBytes(r.values)), d)

\* Handler.handleReadInputRegisters
handleReadInputRegisters(d, req) ==
    LET address == Uint16(req.Data, 0)
        quantity == Uint16(req.Data, 2)
        r == ReadInputRegisters(d, address, quantity)
    IN  IF Len(req.Data) < 4
        THEN Handled(newExceptionResponse(req.FunctionCode, ExceptionCodeIllegalDataValue), d)
        ELSE IF QuantityOutside(quantity, 125)
        THEN Handled(newExceptionResponse(req.FunctionCode, ExceptionCodeIllegalDataValue), d)
        ELSE IF r.err
        THEN Handled(newExceptionResponse(req.FunctionCode, ExceptionCodeIllegalDataAddress), d)
        ELSE Handled(PDU(req.FunctionCode, registersToBytes(r.values)), d)

\* Handler.handleWriteSingleCoil
handleWriteSingleCoil(d, req) ==
    LET address == Uint16(req.Data, 0)
        value == Uint16(req.Data, 2)
    IN  IF Len(req.Data) < 4
        THEN Handled(newExceptionResponse(req.FunctionCode, ExceptionCodeIllegalDataValue), d)
        ELSE IF value # 0 /\ value # 65280
        THEN Handled(newExceptionResponse(req.FunctionCode, ExceptionCodeIllegalDataValue), d)
        ELSE Handled(PDU(req.FunctionCode, req.Data),
                     WriteSingleCoil(d, address, value = 65280).ds)

\* Handler.handleWriteSingleRegister
handleWriteSingleRegister(d, req) ==
    LET address == Uint16(req.Data, 0)
        value == Uint16(req.Data, 2)
    IN  IF Len(req.Data) < 4
        THEN Handled(newExceptionResponse(req.FunctionCode, ExceptionCodeIllegalDataValue), d)
        ELSE Handled(PDU(req.FunctionCode, req.Data),
                     WriteSingleRegister(d, address, value).ds)

\* Handler.handleWriteMultipleCoils
handleWriteMultipleCoils(d, req) ==
    LET address == Uint16(req.Data, 0)
        quantity == Uint16(req.Data, 2)
        byteCount == req.Data[5]
        expectedByteCount == (quantity + 7) \div 8
        w == WriteMultipleCoils(d, address,
                bytesToBools(SubSeq(req.Data, 6, 5 + byteCount), quantity))
    IN  IF Len(req.Data) < 5
        THEN Handled(newExceptionResponse(req.FunctionCode, ExceptionCodeIllegalDataValue), d)
        ELSE IF QuantityOutside(quantity, 1968)
        THEN Handled(newExceptionResponse(req.FunctionCode, ExceptionCodeIllegalDataValue), d)
        ELSE IF byteCount # expectedByteCount \/ Len(req.Data) < (5 + byteCount) % 256
        THEN Handled(newExceptionResponse(req.FunctionCode, ExceptionCodeIllegalDataValue), d)
        ELSE IF w.err
        THEN Handled(newExceptionResponse(req.FunctionCode, ExceptionCodeIllegalDataAddress), d)
        ELSE Handled(PDU(req.FunctionCode, PutUint16(address) \o PutUint16(quantity)), w.ds)

\* Handler.handleWriteMultipleRegisters
handleWriteMultipleRegisters(d, req) ==
    LET address == Uint16(req.Data, 0)
        quantity == Uint16(req.Data, 2)
        byteCount == req.Data[5]
        w == WriteMultipleRegisters(d, address,
                bytesToRegisters(SubSeq(req.Data, 6, 5 + byteCount)))
    IN  IF Len(req.Data) < 5
        THEN Handled(newExceptionResponse(req.FunctionCode, ExceptionCodeIllegalDataValue), d)
        ELSE IF QuantityOutside(quantity, 123)
        THEN Handled(newExceptionResponse(req.FunctionCode, ExceptionCodeIllegalDataValue), d)
        ELSE IF byteCount # (quantity * 2) % 256 \/ Len(req.Data) < (5 + byteCount) % 256
        THEN Handled(newExceptionResponse(req.FunctionCode, ExceptionCodeIllegalDataValue), d)
        ELSE IF w.err
        THEN Handled(newExceptionResponse(req.FunctionCode, ExceptionCodeIllegalDataAddress), d)
        ELSE Handled(PDU(req.FunctionCode, PutUint16(address) \o PutUint16(quantity)), w.ds)

\* Handler.handleMaskWriteRegister
handleMaskWriteRegister(d, req) ==
    IF Len(req.Data) < 6
    THEN Handled(newExceptionResponse(req.FunctionCode, ExceptionCodeIllegalDataValue), d)
    ELSE Handled(PDU(req.FunctionCode, req.Data),
                 MaskWriteRegister(d, Uint16(req.Data, 0), Uint16(req.Data, 2),
                                   Uint16(req.Data, 4)).ds)

\* Handler.handleReadWriteMultipleRegisters: the write first, then the read
handleReadWriteMultipleRegisters(d, req) ==
    LET readAddress == Uint16(req.Data, 0)
        readQuantity == Uint16(req.Data, 2)
        writeAddress == Uint16(req.Data, 4)
        writeQuantity == Uint16(req.Data, 6)
        writeByteCount == req.Data[9]
        w == WriteMultipleRegisters(d, writeAddress,
                bytesToRegisters(SubSeq(req.Data, 10, 9 + writeByteCount)))
        r == ReadHoldingRegisters(w.ds, readAddress, readQuantity)
    IN  IF Len(req.Data) < 9
        THEN Handled(newExceptionResponse(req.FunctionCode, ExceptionCodeIllegalDataValue), d)
        ELSE IF QuantityOutside(readQuantity, 125)
        THEN Handled(newExceptionResponse(req.FunctionCode, ExceptionCodeIllegalDataValue), d)
        ELSE IF QuantityOutside(writeQuantity, 121)
        THEN Handled(newExceptionResponse(req.FunctionCode, ExceptionCodeIllegalDataValue), d)
        ELSE IF writeByteCount # (writeQuantity * 2) % 256
                \/ Len(req.Data) < (9 + writeByteCount) % 256
        THEN Handled(newExceptionResponse(req.FunctionCode, ExceptionCodeIllegalDataValue), d)
        ELSE IF w.err
        THEN Handled(newExceptionResponse(req.FunctionCode, ExceptionCodeIllegalDataAddress), d)
        ELSE IF r.err
        THEN Handled(newExceptionResponse(req.FunctionCode, ExceptionCodeIllegalDataAddress),
                     w.ds)
        ELSE Handled(PDU(req.FunctionCode, registersToBytes(r.values)), w.ds)

\* Handler.HandleRequest (handleReadFIFOQueue and every other function code
\* answer IllegalFunction)
HandleRequest(d, req) ==
    CASE req.FunctionCode = FuncCodeReadCoils -> handleReadCoils(d, req)
      [] req.FunctionCode = FuncCodeReadDiscreteInputs -> handleReadDiscreteInputs(d, req)
      [] req.FunctionCode = FuncCodeReadHoldingRegisters -> handleReadHoldingRegisters(d, req)
      [] req.FunctionCode = FuncCodeReadInputRegisters -> handleReadInputRegisters(d, req)
      [] req.FunctionCode = FuncCodeWriteSingleCoil -> handleWriteSingleCoil(d, req)
      [] req.FunctionCode = FuncCodeWriteSingleRegister -> handleWriteSingleRegister(d, req)
      [] req.FunctionCode = FuncCodeWriteMultipleCoils -> handleWriteMultipleCoils(d, req)
      [] req.FunctionCode = FuncCodeWriteMultipleRegisters ->
            handleWriteMultipleRegisters(d, req)
      [] req.FunctionCode = FuncCodeMaskWriteRegister -> handleMaskWriteRegister(d, req)
      [] req.FunctionCode = FuncCodeReadWriteMultipleRegisters ->
            handleReadWriteMultipleRegisters(d, req)
      [] OTHER -> Handled(newExceptionResponse(req.FunctionCode, ExceptionCodeIllegalFunction), d)

\* the function codes that store into the datastore
WriteCodes ==
    {FuncCodeWriteSingleCoil, FuncCodeWriteSingleRegister, FuncCodeWriteMultipleCoils,
     FuncCodeWriteMultipleRegisters, FuncCodeMaskWriteRegister,
     FuncCodeReadWriteMultipleRegisters}

\* the requests a client can put to the simulator
Fields(values) ==
    [k \in 1..(2 * Len(values)) |->
        IF k % 2 = 1 THEN values[(k + 1) \div 2] \div 256 ELSE values[k \div 2] % 256]

ReadReq(fc, address, quantity) == PDU(fc, Fields(<<address, quantity>>))
WriteCoilsReq(address, quantity, bytes) ==
    PDU(FuncCodeWriteMultipleCoils, Fields(<<address, quantity>>) \o <<Len(bytes) % 256>> \o bytes)
WriteRegsReq(address, values) ==
    PDU(FuncCodeWriteMultipleRegisters,
        Fields(<<address, Len(values)>>) \o <<(2 * Len(values)) % 256>> \o Fields(values))
ReadWriteReq(readAddress, readQuantity, writeAddress, values) ==
    PDU(FuncCodeReadWriteMultipleRegisters,
        Fields(<<readAddress, readQuantity, writeAddress, Len(values)>>)
            \o <<(2 * Len(values)) % 256>> \o Fields(values))

\* the registers 1, 2, ..., n
Count(n) == [i \in 1..n |-> i]

\* n bytes of coils, the first and the last coil of them set
Ends(n) == [i \in 1..n |-> IF i = 1 THEN 1 ELSE IF i = n THEN 128 ELSE 0]

\* address and quantity of the read requests for the quantity limit L: quantity
\* 0, small ranges at both ends of the address space, the limit reaching the
\* last address and passing it, one above the limit
ReadCases(L) ==
    {<<0, 0>>, <<65535, 0>>, <<0, 1>>, <<0, 9>>, <<65535, 1>>, <<65535, 2>>,
     <<maxAddress - L, L>>, <<maxAddress - L + 1, L>>, <<0, L + 1>>, <<65535, L + 1>>}

SrvRequests ==
    {ReadReq(fc, c[1], c[2]) :
        fc \in {FuncCodeReadCoils, FuncCodeReadDiscreteInputs}, c \in ReadCases(2000)}
    \cup {ReadReq(fc, c[1], c[2]) :
        fc \in {FuncCodeReadHoldingRegisters, FuncCodeReadInputRegisters},
        c \in ReadCases(125)}
    \cup {ReadReq(FuncCodeReadCoils, maxAddress - 1968, 1968),
          ReadReq(FuncCodeReadHoldingRegisters, maxAddress - 123, 123),
          ReadReq(FuncCodeReadHoldingRegisters, 0, 2),
          ReadReq(FuncCodeReadHoldingRegisters, 65534, 2)}
    \cup {PDU(FuncCodeReadHoldingRegisters, <<0, 0>>)}
    \cup {PDU(FuncCodeWriteSingleCoil, Fields(c)) :
            c \in {<<0, 65280>>, <<65535, 65280>>, <<0, 0>>, <<0, 1>>}}
    \cup {PDU(FuncCodeWriteSingleRegister, Fields(c)) :
            c \in {<<0, 4660>>, <<65535, 65535>>, <<0, 0>>}}
    \cup {WriteCoilsReq(0, 9, <<255, 255>>), WriteCoilsReq(65535, 1, <<1>>),
          WriteCoilsReq(65535, 2, <<3>>), WriteCoilsReq(0, 9, <<255>>),
          WriteCoilsReq(maxAddress - 1968, 1968, Ends(246)),
          WriteCoilsReq(maxAddress - 1967, 1968, Ends(246)),
          WriteCoilsReq(0, 0, <<>>), WriteCoilsReq(0, 1969, <<>>),
          WriteCoilsReq(65535, 1969, <<>>)}
    \cup {WriteRegsReq(0, <<4660, 22136>>), WriteRegsReq(65534, <<1, 2>>),
          WriteRegsReq(65535, <<1, 2>>), WriteRegsReq(maxAddress - 123, Count(123)),
          WriteRegsReq(maxAddress - 122, Count(123)), WriteRegsReq(0, <<>>),
          WriteRegsReq(0, Count(124)), WriteRegsReq(65535, Count(124))}
    \cup {PDU(FuncCodeMaskWriteRegister, Fields(<<0, 242, 37>>))}
    \cup {ReadWriteReq(0, 1, 0, <<9>>), ReadWriteReq(65535, 2, 0, <<9>>),
          ReadWriteReq(0, 1, 65535, <<1, 2>>),
          ReadWriteReq(0, 125, maxAddress - 121, Count(121)),
          ReadWriteReq(0, 0, 0, <<9>>), ReadWriteReq(65535, 126, 0, <<9>>),
          ReadWriteReq(0, 1, 0, <<>>), ReadWriteReq(0, 1, 65535, Count(122))}
    \cup {PDU(FuncCodeReadFIFOQueue, <<0, 0>>), PDU(99, <<>>)}

\* the simulator has answered the request rq as h tells
Served(rq, h) ==
    /\ ds' = h.ds
    /\ srvRequest' = rq
    /\ srvResponse' = h.pdu
    /\ writes' = IF rq.FunctionCode \in WriteCodes THEN writes + 1 ELSE writes
    /\ lastWrite' =
            IF /\ rq.FunctionCode \in {FuncCodeWriteSingleCoil, FuncCodeWriteSingleRegister,
                                        FuncCodeWriteMultipleCoils,
                                        FuncCodeWriteMultipleRegisters}
               /\ h.pdu.FunctionCode = rq.FunctionCode
            THEN rq
            ELSE IF h.ds # ds THEN NoPDU ELSE lastWrite

(* -------------------- datastore critical sections --------------------- *)
\* the connection goroutines that call the datastore at the same time
Tasks == {1, 2}

\* number of datastore methods called in one run
MaxStoreOps == 3

\* sync.RWMutex: how many goroutines hold the write lock and the read lock
RWMutex(w, r) == [w |-> w, r |-> r]

\* a write lock that is granted whoever holds the mutex
LockNoWait(m) == TRUE

\* ds.mu.Lock() returns: nobody holds the mutex
Lock(m) == m.w = 0 /\ m.r = 0

\* a read lock that is granted whoever holds the mutex
RLockNoWait(m) == TRUE

\* ds.mu.RLock() returns: nobody holds the write lock
RLock(m) == m.w = 0

\* one call of a datastore method; values holds the values of a write, the
\* value of a single write, or andMask and orMask
StoreOp(op, address, quantity, values) ==
    [op |-> op, address |-> address, quantity |-> quantity, values |-> values]

StoreReads == {"ReadCoils", "ReadHoldingRegisters"}

\* where a goroutine is in its method ("idle", "wait" for ds.mu, "in" the
\* critical section, "done"), its loop counter i, the values it has read so
\* far, whether validateRange failed, and how many writes had returned when
\* the method was called
Task(o, tpc, i, got, err, since) ==
    [op |-> o.op, address |-> o.address, quantity |-> o.quantity, values |-> o.values,
     pc |-> tpc, i |-> i, got |-> got, err |-> err, since |-> since]

InitStore ==
    /\ dsMu = RWMutex(0, 0)
    /\ task = [t \in Tasks |-> Task(StoreOp("none", 0, 0, <<>>), "idle", 0, <<>>, FALSE, 0)]
    /\ committed = <<>>
    /\ versions = {}

\* the calls the goroutines make: mask writes of different bits of register
\* 0, register and coil writes to the same addresses, reads of both, and a
\* read beyond the address space
StoreOps ==
    {StoreOp("MaskWriteRegister", 0, 1, <<65534, 1>>),
     StoreOp("MaskWriteRegister", 0, 1, <<65533, 2>>),
     StoreOp("WriteSingleRegister", 0, 1, <<8>>),
     StoreOp("WriteMultipleRegisters", 0, 2, <<5, 6>>),
     StoreOp("ReadHoldingRegisters", 0, 2, <<>>),
     StoreOp("WriteMultipleCoils", 0, 2, <<TRUE, TRUE>>),
     StoreOp("ReadCoils", 0, 2, <<>>),
     StoreOp("ReadHoldingRegisters", 65535, 2, <<>>)}

\* result := (current & andMask) | (orMask & (^andMask))
maskedValue(current, andMask, orMask) ==
    Or(And(current, andMask), And(orMask, 65535 - andMask))

\* the statements a method executes between taking and releasing ds.mu: the
\* iterations of its loop, one store, or the load and the store of a mask write
Iterations(o) ==
    IF o.err THEN 0
    ELSE CASE o.op \in StoreReads -> o.quantity
           [] o.op \in {"WriteMultipleCoils", "WriteMultipleRegisters"} -> Len(o.values)
           [] o.op = "MaskWriteRegister" -> 2
           [] OTHER -> 1

\* a connection goroutine calls a datastore method
StoreCall(t, o) ==
    /\ task[t].pc \in {"idle", "done"}
    /\ Len(committed) + Cardinality({u \in Tasks : task[u].pc \in {"wait", "in"}}) < MaxStoreOps
    /\ task' = [task EXCEPT ![t] = Task(o, "wait", 0, <<>>, FALSE, Len(committed))]
    /\ UNCHANGED <<ds, dsMu, committed, versions, exceptStore>>

\* ds.mu.Lock() or ds.mu.RLock() returns, then validateRange is called
StoreLock(t) ==
    LET o == task[t] IN
    /\ o.pc = "wait"
    /\ IF o.op \in StoreReads THEN RLock(dsMu) ELSE Lock(dsMu)
    /\ dsMu' = IF o.op \in StoreReads THEN [dsMu EXCEPT !.r = @ + 1]
               ELSE [dsMu EXCEPT !.w = @ + 1]
    /\ task' = [task EXCEPT ![t].pc = "in",
                            ![t].err = o.op \notin {"WriteSingleRegister", "MaskWriteRegister"}
                                       /\ validateRange(o.address, o.quantity)]
    /\ UNCHANGED <<ds, committed, versions, exceptStore>>

\* one statement inside the critical section
StoreStep(t) ==
    LET o == task[t]
        a == (o.address + o.i) % 65536
    IN  /\ o.pc = "in"
        /\ o.i < Iterations(o)
        /\ task' = [task EXCEPT
                ![t].i = @ + 1,
                ![t].got = CASE o.op = "ReadHoldingRegisters" ->
                                    Append(@, RegAt(ds.holdingRegs, a))
                             [] o.op = "ReadCoils" -> Append(@, a \in ds.coils)
                             [] o.op = "MaskWriteRegister" /\ o.i = 0 ->
                                    <<RegAt(ds.holdingRegs, o.address)>>
                             [] OTHER -> @]
        /\ ds' = CASE o.op = "WriteMultipleRegisters" ->
                        [ds EXCEPT !.holdingRegs = SetRegs(@, a, <<o.values[o.i + 1]>>)]
                   [] o.op = "WriteMultipleCoils" ->
                        [ds EXCEPT !.coils = SetBits(@, a, <<o.values[o.i + 1]>>)]
                   [] o.op = "WriteSingleRegister" ->
                        [ds EXCEPT !.holdingRegs = SetRegs(@, o.address, <<o.values[1]>>)]
                   [] o.op = "MaskWriteRegister" /\ o.i = 1 ->
                        [ds EXCEPT !.holdingRegs =
                            SetRegs(@, o.address,
                                    <<maskedValue(o.got[1], o.values[1], o.values[2])>>)]
                   [] OTHER -> ds
        /\ UNCHANGED <<dsMu, committed, versions, exceptStore>>

\* the deferred ds.mu.Unlock() or ds.mu.RUnlock(), and the return
StoreUnlock(t) ==
    LET o == task[t] IN
    /\ o.pc = "in"
    /\ o.i = Iterations(o)
    /\ dsMu' = IF o.op \in StoreReads THEN [dsMu EXCEPT !.r = @ - 1]
               ELSE [dsMu EXCEPT !.w = @ - 1]
    /\ task' = [task EXCEPT ![t].pc = "done"]
    /\ committed' = IF o.op \in StoreReads \/ o.err THEN committed
                    ELSE Append(committed, [o EXCEPT !.pc = t])
    /\ versions' = IF o.op \in StoreReads \/ o.err THEN versions ELSE versions \cup {ds}
    /\ UNCHANGED <<ds, exceptStore>>

\* a ReadWriteMultipleRegisters request in the hands of its handler: stage
\* "write" while WriteMultipleRegisters runs, "read" from the call of
\* ReadHoldingRegisters, "none" when no such request is being handled
ReadWrite(stage, readAddress, readQuantity, writeAddress, values) ==
    [stage |-> stage, readAddress |-> readAddress, readQuantity |-> readQuantity,
     writeAddress |-> writeAddress, values |-> values]

NoReadWrite == ReadWrite("none", 0, 0, 0, <<>>)

\* the requests of function 23: a read of the two registers written, and a
\* read of the second of them
ReadWrites ==
    {ReadWrite("write", 0, 2, 0, <<5, 6>>), ReadWrite("write", 1, 1, 0, <<5, 6>>)}

\* handleReadWriteMultipleRegisters on a valid request: "Write first", the call
\* of dataStore.WriteMultipleRegisters
ReadWriteCall(t, rq) ==
    /\ readWrite[t].stage = "none"
    /\ task[t].pc \in {"idle", "done"}
    /\ Len(committed) + Cardinality({u \in Tasks : task[u].pc \in {"wait", "in"}}) < MaxStoreOps
    /\ task' = [task EXCEPT ![t] =
            Task(StoreOp("WriteMultipleRegisters", rq.writeAddress, Len(rq.values), rq.values),
                 "wait", 0, <<>>, FALSE, Len(committed))]
    /\ readWrite' = [readWrite EXCEPT ![t] = rq]
    /\ UNCHANGED <<ds, dsMu, committed, versions, exceptReadWrite>>

\* handleReadWriteMultipleRegisters: WriteMultipleRegisters has returned; on
\* its error the handler returns the exception, otherwise "Then read", the
\* call of dataStore.ReadHoldingRegisters
ReadWriteRead(t) ==
    /\ readWrite[t].stage = "write"
    /\ task[t].pc = "done"
    /\ IF task[t].err
       THEN /\ readWrite' = [readWrite EXCEPT ![t] = NoReadWrite]
            /\ UNCHANGED task
       ELSE /\ readWrite' = [readWrite EXCEPT ![t].stage = "read"]
            /\ task' = [task EXCEPT ![t] =
                    Task(StoreOp("ReadHoldingRegisters", readWrite[t].readAddress,
                                 readWrite[t].readQuantity, <<>>),
                         "wait", 0, <<>>, FALSE, Len(committed))]
    /\ UNCHANGED <<ds, dsMu, committed, versions, exceptReadWrite>>

\* handleReadWriteMultipleRegisters returns the response with the registers read
ReadWriteReturn(t) ==
    /\ readWrite[t].stage = "read"
    /\ task[t].pc = "done"
    /\ readWrite' = [readWrite EXCEPT ![t] = NoReadWrite]
    /\ UNCHANGED <<ds, store, exceptReadWrite>>

(* --------------------------- delay policies --------------------------- *)
RegisterTypeCoil == "coils"
RegisterTypeDiscreteInput == "discreteInputs"
RegisterTypeHoldingReg == "holdingRegs"
RegisterTypeInputReg == "inputRegs"

RegisterTypes ==
    {RegisterTypeCoil, RegisterTypeDiscreteInput, RegisterTypeHoldingReg,
     RegisterTypeInputReg}

\* a pointer: nil is None, a pointer to v is Some(v)
None == <<>>
Some(v) == <<v>>

\* a DelayConfig; TimeoutProbability in hundredths (1.0 is 100)
DelayConfig(Delay, Jitter, TimeoutProbability) ==
    [Delay |-> Delay, Jitter |-> Jitter, TimeoutProbability |-> TimeoutProbability]

\* a DelayConfigSet: its maps have an entry for the keys of their domain
DelayConfigSet(Global, Coils, DiscreteInputs, HoldingRegs, InputRegs) ==
    [Global |-> Global, Coils |-> Coils, DiscreteInputs |-> DiscreteInputs,
     HoldingRegs |-> HoldingRegs, InputRegs |-> InputRegs]

\* a map without entries
NoEntries == <<>>

\* a lookup that prefers the global entry of the type to the entry of the address
GetDelayConfigGlobalFirst(dc, regType, address) ==
    IF dc = None THEN None
    ELSE IF regType \in DOMAIN dc[1].Global THEN Some(dc[1].Global[regType])
    ELSE LET bank == CASE regType = RegisterTypeCoil -> dc[1].Coils
                       [] regType = RegisterTypeDiscreteInput -> dc[1].DiscreteInputs
                       [] regType = RegisterTypeHoldingReg -> dc[1].HoldingRegs
                       [] regType = RegisterTypeInputReg -> dc[1].InputRegs
                       [] OTHER -> NoEntries
         IN  IF address \in DOMAIN bank THEN Some(bank[address]) ELSE None

\* DataStore.GetDelayConfig, on the delayConfig dc of the datastore
GetDelayConfig(dc, regType, address) ==
    IF dc = None THEN None
    ELSE LET bank == CASE regType = RegisterTypeCoil -> dc[1].Coils
                       [] regType = RegisterTypeDiscreteInput -> dc[1].DiscreteInputs
                       [] regType = RegisterTypeHoldingReg -> dc[1].HoldingRegs
                       [] regType = RegisterTypeInputReg -> dc[1].InputRegs
                       [] OTHER -> NoEntries
         IN  IF address \in DOMAIN bank THEN Some(bank[address])
             ELSE IF regType \in DOMAIN dc[1].Global THEN Some(dc[1].Global[regType])
             ELSE None

\* the duration strings of the sample policies, in milliseconds
Durations == ("10ms" :> 10) @@ ("50ms" :> 50) @@ ("200ms" :> 200) @@ ("0s" :> 0)

\* time.ParseDuration on the strings the sample policies use
ParseDuration(s) ==
    IF s \in DOMAIN Durations THEN [err |-> FALSE, d |-> Durations[s]]
    ELSE [err |-> TRUE, d |-> 0]

\* time.Duration(x / y) of a float: the quotient cut off towards zero
Truncated(x, y) == IF x >= 0 THEN x \div y ELSE -((-x) \div y)

\* what ApplyDelayWithOptions returns, and how long it has slept
Applied(proceed, slept) == [proceed |-> proceed, slept |-> slept]

\* a timeout test that looks at the probability whatever disableTimeout says
timesOutAlways(disableTimeout, c, r) ==
    c.TimeoutProbability > 0 /\ r < c.TimeoutProbability

\* !disableTimeout && cfg.TimeoutProbability > 0 && rand.Float64() < cfg.TimeoutProbability,
\* with r the random number in hundredths
timesOut(disableTimeout, c, r) ==
    ~disableTimeout /\ c.TimeoutProbability > 0 /\ r < c.TimeoutProbability

\* DataStore.ApplyDelayWithOptions; r and j are what the two calls of
\* rand.Float64 return, in hundredths
ApplyDelayWithOptions(dc, regType, address, disableTimeout, r, j) ==
    LET c == GetDelayConfig(dc, regType, address) IN
    IF c = None THEN Applied(TRUE, 0)
    ELSE IF timesOut(disableTimeout, c[1], r) THEN Applied(FALSE, 0)
    ELSE IF c[1].Delay = "" THEN Applied(TRUE, 0)
    ELSE LET parsed == ParseDuration(c[1].Delay)
             baseDuration == parsed.d
             jittered == baseDuration
                            + Truncated((2 * j - 100) * baseDuration * c[1].Jitter, 10000)
             delay == IF c[1].Jitter > 0 /\ c[1].Jitter <= 100
                      THEN (IF jittered < 0 THEN 0 ELSE jittered)
                      ELSE baseDuration
         IN  IF parsed.err THEN Applied(TRUE, 0)
             ELSE Applied(TRUE, IF delay > 0 THEN delay ELSE 0)

\* the values rand.Float64 returns in the model, in hundredths: 0 <= r < 100
Floats == {0, 50, 99}

\* the delay policies a datastore is configured with: none, the lookup test's,
\* the README's, per-address and global timeouts, an invalid delay string
SampleDelays ==
    {None,
     Some(DelayConfigSet(RegisterTypeHoldingReg :> DelayConfig("50ms", 10, 0),
                         NoEntries, NoEntries,
                         (100 :> DelayConfig("200ms", 20, 0))
                            @@ (200 :> DelayConfig("", 0, 100)),
                         NoEntries)),
     Some(DelayConfigSet((RegisterTypeCoil :> DelayConfig("10ms", 0, 50))
                            @@ (RegisterTypeInputReg :> DelayConfig("", 0, 100)),
                         (100 :> DelayConfig("", 0, 0)),
                         (200 :> DelayConfig("fast", 0, 0)),
                         NoEntries,
                         (100 :> DelayConfig("0s", 100, 50)))),
     Some(DelayConfigSet(NoEntries, (200 :> DelayConfig("10ms", 100, 100)), NoEntries,
                         (100 :> DelayConfig("fast", 0, 50)), NoEntries))}

\* the addresses the policies are asked for
DelayAddresses == {0, 100, 200}

\* one call of GetDelayConfig or ApplyDelayWithOptions, and what it returned
DelayCall(method, regType, address, disableTimeout, r, c, out) ==
    [method |-> method, regType |-> regType, address |-> address,
     disableTimeout |-> disableTimeout, r |-> r, cfg |-> c, out |-> out]

NoDelayCall == DelayCall("none", RegisterTypeCoil, 0, FALSE, 0, None, Applied(TRUE, 0))

\* ds.GetDelayConfig(regType, address) is called
GetDelay(regType, address) ==
    /\ delayCall' = DelayCall("GetDelayConfig", regType, address, FALSE, 0,
                              GetDelayConfig(delayConfig, regType, address),
                              Applied(TRUE, 0))
    /\ UNCHANGED <<delayConfig, exceptDelay>>

\* ds.ApplyDelayWithOptions(regType, address, disableTimeout) is called, or
\* ds.ApplyDelay(regType, address), which passes false
ApplyDelay(regType, address, disableTimeout, r, j) ==
    /\ delayCall' = DelayCall("ApplyDelayWithOptions", regType, address, disableTimeout, r,
                              GetDelayConfig(delayConfig, regType, address),
                              ApplyDelayWithOptions(delayConfig, regType, address,
                                                    disableTimeout, r, j))
    /\ UNCHANGED <<delayConfig, exceptDelay>>

(* ----------------------------- TCP server ----------------------------- *)
\* the connections clients make to the TCP server
Conns == {1, 2}

\* number of frames the clients send in one run
MaxFrames == 2

\* the MBAP header handleConnection has parsed
Header(transactionID_, protocolID, length, unitID) ==
    [transactionID |-> transactionID_, protocolID |-> protocolID, length |-> length,
     unitID |-> unitID]

NoHeader == Header(0, 0, 0, 0)

\* a connection: where its handleConnection is ("none": not dialed, "dialed":
\* waiting to be accepted, "accepted": returned by Accept, "loop": at the
\* select, "read": reading a header, "body": reading a PDU, "closed": returned),
\* the bytes sent to the server and not yet read, whether the client has closed
\* its end, the header of the request being read, the requests dispatched with
\* their responses, the frames written, and whether Accept returned the
\* connection when the stop channel was closed already
ServerConn(cpc, inbuf, eof, hdr, reqs, out, late) ==
    [pc |-> cpc, inbuf |-> inbuf, eof |-> eof, hdr |-> hdr, reqs |-> reqs, out |-> out,
     late |-> late]

InitTcpServer ==
    /\ stopChan = FALSE
    /\ listener = "nil"
    /\ wg = 0
    /\ stopPc = "none"
    /\ acceptPc = "none"
    /\ sconn = [c \in Conns |-> ServerConn("none", <<>>, FALSE, NoHeader, <<>>, <<>>, FALSE)]
    /\ nframes = 0

\* s.wg.Add(1)
wgAdd(counter) == counter + 1

\* a Wait that returns whatever the counter is
wgWaitNever(counter) == TRUE

\* s.wg.Wait() returns
wgWait(counter) == counter = 0

\* TCPServer.Start: net.Listen, s.wg.Add(1), go s.acceptLoop()
TcpStart ==
    /\ listener = "nil"
    /\ stopPc = "none"
    /\ listener' = "open"
    /\ wg' = wgAdd(wg)
    /\ acceptPc' = "accept"
    /\ UNCHANGED <<stopChan, stopPc, sconn, nframes, ds, handlerv, exceptTcp>>

\* TCPServer.Stop: close(s.stopChan)
StopSignal ==
    /\ stopPc = "none"
    /\ stopChan' = TRUE
    /\ stopPc' = "close"
    /\ UNCHANGED <<listener, wg, acceptPc, sconn, nframes, ds, handlerv, exceptTcp>>

\* TCPServer.Stop: s.listener.Close() when there is a listener
StopListener ==
    /\ stopPc = "close"
    /\ listener' = IF listener = "nil" THEN "nil" ELSE "closed"
    /\ stopPc' = "wait"
    /\ UNCHANGED <<stopChan, wg, acceptPc, sconn, nframes, ds, handlerv, exceptTcp>>

\* TCPServer.Stop: s.wg.Wait() returns, and Stop with it
StopWait ==
    /\ stopPc = "wait"
    /\ wgWait(wg)
    /\ stopPc' = "returned"
    /\ UNCHANGED <<stopChan, listener, wg, acceptPc, sconn, nframes, ds, handlerv, exceptTcp>>

\* a client dials the server
ClientDial(c) ==
    /\ listener = "open"
    /\ sconn[c].pc = "none"
    /\ sconn' = [sconn EXCEPT ![c].pc = "dialed"]
    /\ UNCHANGED <<stopChan, listener, wg, stopPc, acceptPc, nframes, ds, handlerv, exceptTcp>>

\* a client writes the bytes of a frame to its connection
ClientSend(c, frame) ==
    /\ sconn[c].pc \notin {"none", "closed"}
    /\ ~sconn[c].eof
    /\ nframes < MaxFrames
    /\ nframes' = nframes + 1
    /\ sconn' = [sconn EXCEPT ![c].inbuf = @ \o frame]
    /\ UNCHANGED <<stopChan, listener, wg, stopPc, acceptPc, ds, handlerv, exceptTcp>>

\* a client closes its end of the connection
ClientClose(c) ==
    /\ sconn[c].pc \notin {"none", "closed"}
    /\ ~sconn[c].eof
    /\ sconn' = [sconn EXCEPT ![c].eof = TRUE]
    /\ UNCHANGED <<stopChan, listener, wg, stopPc, acceptPc, nframes, ds, handlerv, exceptTcp>>

\* acceptLoop: s.listener.Accept() returns a connection
AcceptConn(c) ==
    /\ acceptPc = "accept"
    /\ listener = "open"
    /\ sconn[c].pc = "dialed"
    /\ acceptPc' = "spawn"
    /\ sconn' = [sconn EXCEPT ![c].pc = "accepted", ![c].late = stopChan]
    /\ UNCHANGED <<stopChan, listener, wg, stopPc, nframes, ds, handlerv, exceptTcp>>

\* acceptLoop: s.wg.Add(1); go s.handleConnection(conn)
AcceptSpawn ==
    /\ acceptPc = "spawn"
    /\ \E c \in Conns :
            /\ sconn[c].pc = "accepted"
            /\ sconn' = [sconn EXCEPT ![c].pc = "loop"]
    /\ wg' = wgAdd(wg)
    /\ acceptPc' = "accept"
    /\ UNCHANGED <<stopChan, listener, stopPc, nframes, ds, handlerv, exceptTcp>>

\* acceptLoop: Accept fails, because its deadline has passed without a
\* connection or because the listener is closed, and the stop channel is
\* closed (or the error is "use of closed network connection"): return, with
\* the deferred s.wg.Done()
AcceptReturn ==
    /\ acceptPc = "accept"
    /\ listener = "closed" \/ (stopChan /\ \A c \in Conns : sconn[c].pc # "dialed")
    /\ acceptPc' = "done"
    /\ wg' = wg - 1
    /\ UNCHANGED <<stopChan, listener, stopPc, sconn, nframes, ds, handlerv, exceptTcp>>

\* handleConnection returns: the deferred conn.Close() and s.wg.Done()
ConnReturned(c) ==
    /\ sconn' = [sconn EXCEPT ![c].pc = "closed", ![c].inbuf = <<>>]
    /\ wg' = wg - 1

\* handleConnection: the select at the top of the loop
ConnLoop(c) ==
    /\ sconn[c].pc = "loop"
    /\ IF stopChan THEN ConnReturned(c)
       ELSE sconn' = [sconn EXCEPT ![c].pc = "read"] /\ UNCHANGED wg
    /\ UNCHANGED <<stopChan, listener, stopPc, acceptPc, nframes, ds, handlerv, exceptTcp>>

\* protocolID != tcpProtocolIdentifier, or length < 2 || length > tcpMaxLength
headerRejected(h) ==
    h.protocolID # tcpProtocolIdentifier \/ h.length < 2 \/ h.length > tcpMaxLength

\* handleConnection: io.ReadFull of the header. With 7 bytes it is parsed and
\* checked; at the end of the stream the task returns; when the deadline
\* passes the bytes read so far are dropped and the loop continues
ConnHeader(c) ==
    LET b == sconn[c].inbuf
        h == Header(Uint16(b, 0), Uint16(b, 2), Uint16(b, 4), b[7])
    IN  /\ sconn[c].pc = "read"
        /\ IF Len(b) >= tcpHeaderSize
           THEN /\ sconn' = [sconn EXCEPT ![c].inbuf = From(b, tcpHeaderSize),
                                         ![c].pc = IF headerRejected(h) THEN "loop" ELSE "body",
                                         ![c].hdr = IF headerRejected(h) THEN NoHeader ELSE h]
                /\ UNCHANGED wg
           ELSE IF sconn[c].eof THEN ConnReturned(c)
           ELSE sconn' = [sconn EXCEPT ![c].inbuf = <<>>, ![c].pc = "loop"] /\ UNCHANGED wg
        /\ UNCHANGED <<stopChan, listener, stopPc, acceptPc, nframes, ds, handlerv, exceptTcp>>

\* a response frame that carries unit id 0 whatever the request's was
responseFrameNoUnit(h, responsePDU) ==
    PutUint16(h.transactionID) \o PutUint16(h.protocolID)
        \o PutUint16((1 + 1 + Len(responsePDU.Data)) % 65536)
        \o <<0>> \o <<responsePDU.FunctionCode>> \o responsePDU.Data

\* the response frame: the MBAP header echoing the request's ids, then the PDU
responseFrame(h, responsePDU) ==
    PutUint16(h.transactionID) \o PutUint16(h.protocolID)
        \o PutUint16((1 + 1 + Len(responsePDU.Data)) % 65536)
        \o <<h.unitID>> \o <<responsePDU.FunctionCode>> \o responsePDU.Data

\* the request pdu of connection c has been dispatched with the outcome r:
\* nothing is written for a nil response, else the response frame; when
\* conn.Write fails (ok is false) the task returns
ConnAnswered(c, pdu, r, ok) ==
    /\ Served(pdu, r)
    /\ requests' = requests + 1
    /\ sconn' = [sconn EXCEPT
            ![c].inbuf = IF ok THEN From(@, sconn[c].hdr.length - 1) ELSE <<>>,
            ![c].pc = IF ok THEN "loop" ELSE "closed",
            ![c].hdr = NoHeader,
            ![c].reqs = Append(@, [hdr |-> sconn[c].hdr, pdu |-> pdu, response |-> r.pdu,
                                   written |-> ok /\ r.pdu # NoPDU]),
            ![c].out = IF r.pdu = NoPDU \/ ~ok THEN @
                       ELSE Append(@, responseFrame(sconn[c].hdr, r.pdu))]
    /\ wg' = IF ok THEN wg ELSE wg - 1

\* handleConnection: io.ReadFull of the PDU, HandleRequest, conn.Write; when
\* the PDU does not arrive the task returns. A write can fail once the client
\* has closed its end
ConnBody(c) ==
    LET b == sconn[c].inbuf
        pduLength == sconn[c].hdr.length - 1
    IN  /\ sconn[c].pc = "body"
        /\ IF Len(b) >= pduLength
           THEN \E ok \in (IF sconn[c].eof THEN BOOLEAN ELSE {TRUE}) :
                    ConnAnswered(c, PDU(b[1], SubSeq(b, 2, pduLength)),
                                 HandleRequest(ds, PDU(b[1], SubSeq(b, 2, pduLength))), ok)
           ELSE ConnReturned(c) /\ UNCHANGED <<ds, handlerv>>
        /\ UNCHANGED <<stopChan, listener, stopPc, acceptPc, nframes, exceptTcp>>

\* the policy of the timeout test: holding register 200 never answers
TimeoutPolicy ==
    Some(DelayConfigSet(NoEntries, NoEntries, NoEntries,
                        (200 :> DelayConfig("", 0, 100)), NoEntries))

\* the frames clients send: reads of holding registers 0 and 200, a write, a
\* request of one byte, and frames with a wrong protocol id, with lengths 1
\* and 261, and with a PDU shorter than its header says
ClientFrames ==
    {TcpFrame(1, 0, 6, 1, <<FuncCodeReadHoldingRegisters, 0, 0, 0, 1>>),
     TcpFrame(2, 0, 6, 7, <<FuncCodeReadHoldingRegisters, 0, 200, 0, 1>>),
     TcpFrame(3, 0, 6, 1, <<FuncCodeWriteSingleRegister, 0, 0, 0, 9>>),
     TcpFrame(4, 0, 2, 1, <<17>>),
     TcpFrame(5, 1, 6, 1, <<FuncCodeReadHoldingRegisters, 0, 0, 0, 1>>),
     TcpFrame(6, 0, 1, 1, <<>>),
     TcpFrame(7, 0, 261, 1, <<>>),
     TcpFrame(8, 0, 6, 1, <<FuncCodeReadHoldingRegisters, 0>>)}

(* ------------------------ RTU and ASCII servers ------------------------ *)
\* how many frames the client writes to the pty
MaxSerialFrames == 2

\* the RTUServer or ASCIIServer ("none" before it is made), with the place of
\* Stop ("none", "close", "join", "returned") and of serve ("none", "loop",
\* "request", "done")
SerialServer(k, id, stop, done, spc, vpc) ==
    [kind |-> k, slaveID |-> id, stopChan |-> stop, doneChan |-> done,
     stopPc |-> spc, servePc |-> vpc]

Pty(closed, inbuf, out, sent) == [closed |-> closed, inbuf |-> inbuf, out |-> out, sent |-> sent]

\* what handleRequest did with the frame adu
FrameHandled(adu, dispatched, response, changed) ==
    [adu |-> adu, dispatched |-> dispatched, response |-> response, changed |-> changed]

NoFrame == FrameHandled(<<>>, FALSE, <<>>, FALSE)

InitSerialServer ==
    /\ srvSerial = SerialServer("none", 0, FALSE, FALSE, "none", "none")
    /\ srvPty = Pty(FALSE, <<>>, <<>>, 0)
    /\ srvFrame = NoFrame

\* NewRTUServer, NewASCIIServer: a SlaveID of 0 in the configuration means 1
NewSerialServer(k, id) ==
    /\ srvSerial.kind = "none"
    /\ srvSerial' = SerialServer(k, IF id = 0 THEN 1 ELSE id, FALSE, FALSE, "none", "none")
    /\ UNCHANGED <<ds, handlerv, srvPty, srvFrame, exceptSerial>>

\* Start: go s.serve()
SerialStart ==
    /\ srvSerial.kind # "none"
    /\ srvSerial.servePc = "none"
    /\ srvSerial' = [srvSerial EXCEPT !.servePc = "loop"]
    /\ UNCHANGED <<ds, handlerv, srvPty, srvFrame, exceptSerial>>

\* Stop, first statement: close(s.stopChan)
SerialStopSignal ==
    /\ srvSerial.kind # "none"
    /\ srvSerial.stopPc = "none"
    /\ srvSerial' = [srvSerial EXCEPT !.stopChan = TRUE, !.stopPc = "close"]
    /\ UNCHANGED <<ds, handlerv, srvPty, srvFrame, exceptSerial>>

\* Stop, second statement: s.pty.Close()
SerialStopClose ==
    /\ srvSerial.stopPc = "close"
    /\ srvPty' = [srvPty EXCEPT !.closed = TRUE]
    /\ srvSerial' = [srvSerial EXCEPT !.stopPc = "join"]
    /\ UNCHANGED <<ds, handlerv, srvFrame, exceptSerial>>

\* a select of Stop that waits for doneChan alone
joinReadyNoTimer(done, elapsed) == done

\* the select of Stop: doneChan is closed, or the second of time.After is over
joinReady(done, elapsed) == done \/ elapsed

\* Stop, from its select to its return
SerialStopJoin(elapsed) ==
    /\ srvSerial.stopPc = "join"
    /\ joinReady(srvSerial.doneChan, elapsed)
    /\ srvSerial' = [srvSerial EXCEPT !.stopPc = "returned"]
    /\ UNCHANGED <<ds, handlerv, srvPty, srvFrame, exceptSerial>>

\* serve: the select of the loop; a closed stopChan ends it (and the deferred
\* close of doneChan runs), otherwise handleRequest is called
ServeLoop ==
    /\ srvSerial.servePc = "loop"
    /\ srvSerial' = IF srvSerial.stopChan
                    THEN [srvSerial EXCEPT !.servePc = "done", !.doneChan = TRUE]
                    ELSE [srvSerial EXCEPT !.servePc = "request"]
    /\ UNCHANGED <<ds, handlerv, srvPty, srvFrame, exceptSerial>>

\* handleRequest when the read fails on the closed pty: with io.EOF or
\* os.ErrClosed serve returns, with any other error the loop goes on
ReadClosed(e) ==
    /\ srvSerial.servePc = "request"
    /\ srvPty.closed
    /\ srvSerial' = IF e = "EOF"
                    THEN [srvSerial EXCEPT !.servePc = "done", !.doneChan = TRUE]
                    ELSE [srvSerial EXCEPT !.servePc = "loop"]
    /\ UNCHANGED <<ds, handlerv, srvPty, srvFrame, exceptSerial>>

\* handleRequest when the read deadline passes with nothing to read
ReadTimeout ==
    /\ srvSerial.servePc = "request"
    /\ ~srvPty.closed
    /\ srvPty.inbuf = <<>>
    /\ srvSerial' = [srvSerial EXCEPT !.servePc = "loop"]
    /\ UNCHANGED <<ds, handlerv, srvPty, srvFrame, exceptSerial>>

\* RTUServer.getFixedRequestLength
getFixedRequestLength(functionCode) ==
    IF functionCode \in {FuncCodeReadCoils, FuncCodeReadDiscreteInputs,
                         FuncCodeReadHoldingRegisters, FuncCodeReadInputRegisters,
                         FuncCodeWriteSingleCoil, FuncCodeWriteSingleRegister} THEN 8
    ELSE IF functionCode = FuncCodeMaskWriteRegister THEN 10
    ELSE IF functionCode = FuncCodeReadFIFOQueue THEN 6
    ELSE rtuMaxSize

\* RTUServer.calculateExpectedLength
calculateExpectedLength(d) ==
    IF Len(d) < 2 THEN rtuMinSize
    ELSE IF d[2] \in {FuncCodeWriteMultipleCoils, FuncCodeWriteMultipleRegisters} /\ Len(d) >= 7
    THEN 7 + d[7] + 2
    ELSE IF d[2] = FuncCodeReadWriteMultipleRegisters /\ Len(d) >= 11
    THEN 11 + d[11] + 2
    ELSE getFixedRequestLength(d[2])

\* RTUServer.readFrame on the bytes b the client has written, after which the
\* client writes nothing before the deadline: the frame, or the error of the
\* read that ran into the deadline
rtuReadFrame(b) ==
    LET n == IF Len(b) > rtuMaxSize THEN rtuMaxSize ELSE Len(b)
        expectedLength == calculateExpectedLength(Take(b, n))
    IN  IF n < rtuMinSize THEN [err |-> TRUE, adu |-> <<>>]
        ELSE IF expectedLength > n /\ expectedLength <= rtuMaxSize
        THEN [err |-> TRUE, adu |-> <<>>]
        ELSE [err |-> FALSE, adu |-> Take(b, n)]

\* ASCIIServer.readFrame on the bytes b: what precedes the first ':' is
\* skipped, and the frame ends with the first CR LF after it
asciiReadFrame(b) ==
    LET starts == {i \in 1..Len(b) : b[i] = 58}
        first == CHOOSE i \in starts : \A k \in starts : i <= k
        ends == {j \in 1..Len(b) : j > first + 1 /\ b[j - 1] = 13 /\ b[j] = 10}
        last == CHOOSE j \in ends : \A k \in ends : j <= k
    IN  IF starts = {} THEN [err |-> TRUE, adu |-> <<>>]
        ELSE IF ends = {} THEN [err |-> TRUE, adu |-> <<>>]
        ELSE IF last - first > asciiMaxSize THEN [err |-> TRUE, adu |-> <<>>]
        ELSE [err |-> FALSE, adu |-> SubSeq(b, first, last)]

\* rtuPackager.Decode of the simulator
simRtuDecode(adu) ==
    LET length == Len(adu) IN
    IF length < rtuMinSize THEN Decoded(ErrServerFrame, 0, <<>>)
    ELSE IF adu[length - 1] + 256 * adu[length] # crc(Take(adu, length - 2))
    THEN Decoded(ErrServerFrame, 0, <<>>)
    ELSE Decoded(NoErr, adu[2], SubSeq(adu, 3, length - 2))

\* rtuPackager.Encode of the simulator, which answers with the SlaveID of the server
simRtuEncode(id, pdu) ==
    LET body == <<id, pdu.FunctionCode>> \o pdu.Data
    IN  IF Len(pdu.Data) + 4 > rtuMaxSize THEN [err |-> TRUE, adu |-> <<>>]
        ELSE [err |-> FALSE, adu |-> body \o <<crc(body) % 256, crc(body) \div 256>>]

\* asciiPackager.Encode of the simulator
simAsciiEncode(id, pdu) ==
    [err |-> FALSE,
     adu |-> <<58>> \o writeHex(<<id, pdu.FunctionCode>>) \o writeHex(pdu.Data)
                \o writeHex(<<lrc8(<<id, pdu.FunctionCode>> \o pdu.Data)>>) \o asciiEnd]

\* the slave id check of handleRequest: the first byte of an RTU frame, the
\* two characters after the colon of an ASCII frame compared as text
forThisSlave(k, id, adu) ==
    IF k = "rtu" THEN adu[1] = id \/ adu[1] = 0
    ELSE SubSeq(adu, 2, 3) = writeHex(<<id>>) \/ SubSeq(adu, 2, 3) = <<48, 48>>

\* handleRequest when there are bytes to read: readFrame, Decode, the slave id
\* check, the handler, Encode and the write of the response
ServeFrame ==
    LET k == srvSerial.kind
        id == srvSerial.slaveID
        rf == IF k = "rtu" THEN rtuReadFrame(srvPty.inbuf) ELSE asciiReadFrame(srvPty.inbuf)
        dec == IF k = "rtu" THEN simRtuDecode(rf.adu) ELSE simAsciiDecode(rf.adu)
        rq == PDU(dec.FunctionCode, dec.Data)
        h == HandleRequest(ds, rq)
        enc == IF k = "rtu" THEN simRtuEncode(id, h.pdu) ELSE simAsciiEncode(id, h.pdu)
    IN  /\ srvSerial.servePc = "request"
        /\ ~srvPty.closed
        /\ srvPty.inbuf # <<>>
        /\ srvSerial' = [srvSerial EXCEPT !.servePc = "loop"]
        /\ IF ~rf.err /\ dec.err = NoErr /\ forThisSlave(k, id, rf.adu)
           THEN /\ Served(rq, h)
                /\ requests' = requests + 1
                /\ srvPty' = [srvPty EXCEPT !.inbuf = <<>>,
                                            !.out = IF enc.err THEN @ ELSE Append(@, enc.adu)]
                /\ srvFrame' = FrameHandled(srvPty.inbuf, TRUE,
                                       IF enc.err THEN <<>> ELSE enc.adu, h.ds # ds)
           ELSE /\ srvPty' = [srvPty EXCEPT !.inbuf = <<>>]
                /\ srvFrame' = FrameHandled(srvPty.inbuf, FALSE, <<>>, FALSE)
                /\ UNCHANGED <<ds, handlerv>>
        /\ UNCHANGED exceptSerial

\* the frame a client configured with the slave id writes for the request pdu
RtuFrame(id, pdu) ==
    LET body == <<id, pdu.FunctionCode>> \o pdu.Data
    IN  body \o <<crc(body) % 256, crc(body) \div 256>>

AsciiFrame(id, pdu) ==
    <<58>> \o writeHex(<<id, pdu.FunctionCode>>) \o writeHex(pdu.Data)
        \o writeHex(<<lrc(<<id, pdu.FunctionCode>> \o pdu.Data)>>) \o asciiEnd

\* the requests of the serial clients: a read, a write, and a request of a
\* function code alone
SerialRequests ==
    {PDU(FuncCodeReadHoldingRegisters, <<0, 0, 0, 1>>),
     PDU(FuncCodeWriteSingleRegister, <<0, 0, 0, 9>>),
     PDU(17, <<>>)}

\* the slave ids the server is configured with and the clients address
SlaveIDs == {0, 1, 2}

\* the client writes a request once the server has read the one before
SerialClientSend(id, pdu) ==
    /\ srvSerial.kind # "none"
    /\ ~srvPty.closed
    /\ srvPty.inbuf = <<>>
    /\ srvPty.sent < MaxSerialFrames
    /\ srvPty' = [srvPty EXCEPT
            !.inbuf = IF srvSerial.kind = "rtu" THEN RtuFrame(id, pdu) ELSE AsciiFrame(id, pdu),
            !.sent = @ + 1]
    /\ UNCHANGED <<ds, handlerv, srvSerial, srvFrame, exceptSerial>>

\* the simulator's servers and connections before any of them is started
InitSim ==
    /\ InitStore
    /\ delayCall = NoDelayCall
    /\ InitTcpServer
    /\ InitSerialServer
    /\ readWrite = [t \in Tasks |-> NoReadWrite]

\* the configurations the simulator is started with
SampleConfig ==
    Config({1}, {0, 8, 65535}, (1 :> 7), (0 :> 4660) @@ (65535 :> 65535))

InitServerWith(configs, delays) ==
    /\ dsConfig \in configs
    /\ delayConfig \in delays
    /\ ds = NewDataStore(dsConfig)
    /\ srvRequest = NoPDU
    /\ srvResponse = NoPDU
    /\ writes = 0
    /\ requests = 0
    /\ lastWrite = NoPDU
    /\ InitSim

\* a simulator whose configuration has no delay policies
InitServer(configs) == InitServerWith(configs, {None})

\* a server reads the request rq from a client, has Handler.HandleRequest
\* process it and writes its response
Serve(rq) ==
    /\ requests < MaxRequests
    /\ requests' = requests + 1
    /\ Served(rq, HandleRequest(ds, rq))
    /\ UNCHANGED <<dsConfig, simv, client>>

(* ------------------------------ framing ------------------------------ *)
\* longest data of the sample PDUs
MaxData == 2

\* a PDU at stage "pdu", its frame at stage "adu" (damage tells what the
\* wire did to it), the client's and the simulator's decoding at stage "out"
Framing(packager, pdu, stage, adu, damage, out, sim) ==
    [packager |-> packager, pdu |-> pdu, stage |-> stage, adu |-> adu,
     damage |-> damage, out |-> out, sim |-> sim]

NoDecoded == Decoded("none", 0, <<>>)
NoFraming == Framing("none", [FunctionCode |-> 0, Data |-> <<>>], "none", <<>>, "none",
                     NoDecoded, NoDecoded)

SampleBytes == {0, 10, 165, 255}

\* the byte sequences 0, 1, 2, ... of length n
Ramp(n) == [i \in 1..n |-> (i - 1) % 256]

\* the PDUs put through the packagers: short ones of every content, the
\* longest that fits a frame (252 data bytes) and one byte more
FramerPDUs ==
    {[FunctionCode |-> fc, Data |-> d] :
        fc \in {FuncCodeReadCoils, FuncCodeWriteMultipleRegisters,
                FuncCodeReadHoldingRegisters + 128},
        d \in UNION {[1..k -> SampleBytes] : k \in 0..MaxData}}
    \cup {[FunctionCode |-> FuncCodeReadHoldingRegisters, Data |-> Ramp(n)] :
            n \in {rtuMaxSize - 4, rtuMaxSize - 3}}

InitFraming ==
    /\ InitWith({"tcp"}, {IdleTicks})
    /\ InitServer({NoConfig})
    /\ framing \in {Framing(k, u, "pdu", <<>>, "none", NoDecoded, NoDecoded) :
                        k \in Kinds, u \in FramerPDUs}

\* Packager.Encode of the PDU (the MBAP transaction counter returns 1)
FramerEncode ==
    /\ framing.stage = "pdu"
    /\ LET e == CASE framing.packager = "tcp" ->
                        [err |-> NoErr, adu |-> tcpEncode(1, framing.pdu)]
                  [] framing.packager = "rtu" -> rtuEncode(framing.pdu)
                  [] OTHER -> [err |-> NoErr, adu |-> asciiEncode(framing.pdu)]
       IN  framing' = [framing EXCEPT !.stage = IF e.err = NoErr THEN "adu" ELSE "failed",
                                      !.adu = e.adu]
    /\ UNCHANGED <<kind, IdleTimeout, peerClosed, sentID, srv, life, net, local, callv, ret, now>>

\* what the wire can do to the frame f: change a character of the function
\* code, drop the colon, break the CRLF, drop a character, cut it short
Damaged(f, c) ==
    CASE c = "flip" ->
            LET i == IF framing.packager = "tcp" THEN tcpHeaderSize + 1
                     ELSE IF framing.packager = "rtu" THEN 2 ELSE 5
            IN  [f EXCEPT ![i] = (@ + 1) % 256]
      [] c = "nocolon" -> [f EXCEPT ![1] = 59]
      [] c = "nocrlf" -> [f EXCEPT ![Len(f)] = 13]
      [] c = "even" -> SubSeq(f, 1, 4) \o SubSeq(f, 6, Len(f))
      [] OTHER -> SubSeq(f, 1, 3) \o SubSeq(f, Len(f) - 3, Len(f))

DamageKinds == {"flip", "nocolon", "nocrlf", "even", "short"}

\* the frame is damaged on the wire
FramerDamage(c) ==
    /\ framing.stage = "adu"
    /\ framing.damage = "none"
    /\ c = "flip" \/ framing.packager = "ascii"
    /\ Len(framing.adu) <= 2 * rtuMinSize + 2 * MaxData + 1
    /\ framing' = [framing EXCEPT !.damage = c, !.adu = Damaged(framing.adu, c)]
    /\ UNCHANGED <<kind, IdleTimeout, peerClosed, sentID, srv, life, net, local, callv, ret, now>>

\* the client receives the frame as the response to a request of its own:
\* Verify, then Decode; the simulator receives an ASCII frame: Decode
FramerDecode ==
    /\ framing.stage = "adu"
    /\ LET f == framing.adu
           v == CASE framing.packager = "tcp" -> tcpVerify(tcpEncode(1, framing.pdu), f)
                  [] framing.packager = "rtu" -> rtuVerify(rtuRequestFrame, f)
                  [] OTHER -> asciiVerify(asciiRequestFrame, f)
           d == CASE framing.packager = "tcp" -> tcpDecode(f)
                  [] framing.packager = "rtu" -> rtuDecode(f)
                  [] OTHER -> asciiDecode(f)
       IN  framing' = [framing EXCEPT
                !.stage = "out",
                !.out = IF v # NoErr THEN Decoded(v, 0, <<>>) ELSE d,
                !.sim = IF framing.packager = "ascii" THEN simAsciiDecode(f) ELSE NoDecoded]
    /\ UNCHANGED <<kind, IdleTimeout, peerClosed, sentID, srv, life, net, local, callv, ret, now>>

\* the steps of Send that the three transporters share
CommonSteps(P) ==
    \/ \E p \in P : Begin(p)
    \/ \E p \in P, ok \in DialOutcomes : Connected(p, ok)
    \/ \E p \in P, ok \in BOOLEAN : Written(p, ok)

TcpReads(P) ==
    \/ \E p \in P : TcpHeader(p)
    \/ \E p \in P : TcpBody(p)

SerialReads(P) ==
    \/ \E p \in P : RtuDelayed(p)
    \/ \E p \in P : RtuReadMin(p)
    \/ \E p \in P : RtuReadRest(p)
    \/ \E p \in P : AsciiRead(p)

\* Spec: one caller on a handler of any kind, with the clock, the idle timer,
\* cancellation, exported Connect and Close, and a peer that answers each
\* request correctly: at once, late, in parts, or not at all
Init == InitWith(Kinds, {IdleTicks}) /\ framing = NoFraming /\ InitServer({NoConfig})

Next ==
    \/ Operation(1, ReadOne)
    \/ SendCall(1)
    \/ CommonSteps({1})
    \/ TcpReads({1})
    \/ SerialReads({1})
    \/ Cancel(1)
    \/ \E v \in {"ok", "none"}, split \in BOOLEAN : PeerRespond(v, split)
    \/ PeerDeliver
    \/ TimerFire
    \/ closeIdle
    \/ Connect
    \/ Close
    \/ Tick

Spec == Init /\ [][Next]_vars

\* what a serial device sends back: the response, the exception response, or
\* more bytes than a frame can have, without a function code the request
\* would expect and without an end of frame
DeviceFrames == {"ok", "exception", "babble"}

DeviceFrame(v) ==
    IF kind = "rtu"
    THEN CASE v = "ok" -> rtuResponseFrame
           [] v = "exception" -> rtuExceptionFrame
           [] OTHER -> <<1, 99>> \o Zeros(rtuMaxSize)
    ELSE CASE v = "ok" -> asciiResponseFrame
           [] v = "exception" -> asciiEncode(PDU(FuncCodeReadHoldingRegisters + 128, <<2>>))
           [] OTHER -> <<58>> \o [i \in 1..(asciiMaxSize + 1) |-> 48]

\* after how many bytes the device pauses (a number beyond the frame: not at all)
Cuts == {2, 4, asciiMaxSize + 2}

\* the device answers the oldest request: the frame will arrive whole or, if
\* it is a response, in two parts (the second one late, or never: nothing
\* makes a part arrive)
DeviceRespond(v, cut) ==
    LET f == DeviceFrame(v) IN
    /\ wire # <<>>
    /\ v = "babble" => cut >= Len(f)
    /\ pend' = pend \o (IF cut >= Len(f) THEN <<f>> ELSE <<Take(f, cut), From(f, cut)>>)
    /\ wire' = Tail(wire)
    /\ UNCHANGED <<cfg, life, rx, local, callv, ret, now>>

\* a pending port read has nothing to read until its timeout is over
PortTimeout ==
    /\ pc[1] \in {"readmin", "readrest", "read"}
    /\ rx = <<>>
    /\ deadline >= 0
    /\ now < deadline
    /\ now' = deadline
    /\ UNCHANGED <<cfg, life, net, local, callv, ret>>

\* SpecSerialClient: one caller of Send on an RTU or ASCII transporter and a
\* device that answers whole or in parts, stalls after a part, or babbles
InitSerialClient ==
    InitWith(Serial, {IdleTicks}) /\ framing = NoFraming /\ InitServer({NoConfig})

SendSteps ==
    \/ CommonSteps({1})
    \/ SerialReads({1})

NextSerialClient ==
    \/ SendCall(1)
    \/ SendSteps
    \/ \E v \in DeviceFrames, cut \in Cuts : DeviceRespond(v, cut)
    \/ PeerDeliver
    \/ PortTimeout

SpecSerialClient == InitSerialClient /\ [][NextSerialClient]_vars

\* SpecSerialClientFair: the goroutine in Send keeps running and every port
\* read returns, with bytes or when its timeout is over; nothing is assumed
\* of the device
SpecSerialClientFair ==
    /\ SpecSerialClient
    /\ WF_vars(SendSteps)
    /\ WF_vars(PortTimeout)

\* SpecIdle: the steps of Spec on handlers with and without an idle timeout
InitIdle == InitWith(Kinds, {0, IdleTicks}) /\ framing = NoFraming /\ InitServer({NoConfig})

SpecIdle == InitIdle /\ [][Next]_vars

\* SpecConc: concurrent callers on one handler of any kind, with cancellation
\* and exported Connect and Close, without the clock
NextConc ==
    \/ \E p \in Procs : Operation(p, ReadOne)
    \/ \E p \in Procs : SendCall(p)
    \/ CommonSteps(Procs)
    \/ TcpReads(Procs)
    \/ SerialReads(Procs)
    \/ \E p \in Procs : Cancel(p)
    \/ \E split \in BOOLEAN : PeerRespond("ok", split)
    \/ PeerDeliver
    \/ Connect
    \/ Close

SpecConc == Init /\ [][NextConc]_vars

\* SpecTcp: one caller on a TCP handler whose peer may answer with any kind
\* of response
InitTcp == InitWith({"tcp"}, {IdleTicks}) /\ framing = NoFraming /\ InitServer({NoConfig})

NextTcp ==
    \/ Operation(1, ReadOne)
    \/ CommonSteps({1})
    \/ TcpReads({1})
    \/ \E v \in ResponseKinds, split \in BOOLEAN : PeerRespond(v, split)
    \/ PeerDeliver
    \/ Tick

SpecTcp == InitTcp /\ [][NextTcp]_vars

\* SpecFunction: one caller on a TCP handler whose peer answers with the
\* response, with an exception response, or with a response that carries
\* another function code
NextFunction ==
    \/ Operation(1, ReadOne)
    \/ CommonSteps({1})
    \/ TcpReads({1})
    \/ \E v \in {"ok", "exception", "function"} : PeerRespond(v, FALSE)
    \/ PeerDeliver
    \/ Tick

SpecFunction == InitTcp /\ [][NextFunction]_vars

\* SpecIds: concurrent callers on a TCP handler whose transaction counter is
\* at its start or about to pass 2^16
InitIds == InitCounter({"tcp"}, {IdleTicks}, {0, 65534, 65535}) /\ framing = NoFraming /\ InitServer({NoConfig})

NextIds ==
    \/ \E p \in Procs : Operation(p, ReadOne)
    \/ CommonSteps(Procs)
    \/ TcpReads(Procs)
    \/ PeerRespond("ok", FALSE)
    \/ PeerDeliver

SpecIds == InitIds /\ [][NextIds]_vars

\* SpecServer: the simulator's handler and datastore, sent requests with
\* addresses and quantities at, inside and outside their limits
InitServing ==
    /\ InitWith({"tcp"}, {IdleTicks})
    /\ framing = NoFraming
    /\ InitServer({NoConfig, SampleConfig})

NextServer == \E rq \in SrvRequests : Serve(rq)

SpecServer == InitServing /\ [][NextServer]_vars

\* SpecStore: connection goroutines calling datastore methods at the same
\* time, each statement inside a critical section a step of its own
NextStore ==
    \/ \E t \in Tasks, o \in StoreOps : StoreCall(t, o)
    \/ \E t \in Tasks : StoreLock(t)
    \/ \E t \in Tasks : StoreStep(t)
    \/ \E t \in Tasks : StoreUnlock(t)

SpecStore == InitTcp /\ [][NextStore]_vars

\* SpecReadWrite: connection goroutines handling ReadWriteMultipleRegisters
\* requests and calling other datastore methods at the same time
NextReadWrite ==
    \/ \E t \in Tasks, o \in StoreOps : readWrite[t].stage = "none" /\ StoreCall(t, o)
    \/ \E t \in Tasks, rq \in ReadWrites : ReadWriteCall(t, rq)
    \/ \E t \in Tasks : ReadWriteRead(t)
    \/ \E t \in Tasks : ReadWriteReturn(t)
    \/ \E t \in Tasks : StoreLock(t)
    \/ \E t \in Tasks : StoreStep(t)
    \/ \E t \in Tasks : StoreUnlock(t)

SpecReadWrite == InitTcp /\ [][NextReadWrite]_vars

\* SpecDelay: a datastore with delay policies, asked for the policy of an
\* address and to apply it
InitDelay ==
    /\ InitWith({"tcp"}, {IdleTicks})
    /\ framing = NoFraming
    /\ InitServerWith({NoConfig}, SampleDelays)

NextDelay ==
    \/ \E regType \in RegisterTypes, address \in DelayAddresses : GetDelay(regType, address)
    \/ \E regType \in RegisterTypes, address \in DelayAddresses, disableTimeout \in BOOLEAN,
          r \in Floats, j \in Floats :
            ApplyDelay(regType, address, disableTimeout, r, j)

SpecDelay == InitDelay /\ [][NextDelay]_vars

\* SpecTcpServer: the TCP server with its accept loop and its connections,
\* and clients that dial, send frames and close
InitTcpServing ==
    /\ InitWith({"tcp"}, {IdleTicks})
    /\ framing = NoFraming
    /\ InitServerWith({NoConfig}, {None, TimeoutPolicy})

StopSteps == StopSignal \/ StopListener \/ StopWait

AcceptSteps == (\E c \in Conns : AcceptConn(c)) \/ AcceptSpawn \/ AcceptReturn

\* the frames sent to a server that is being stopped: a request, and one
\* whose PDU does not arrive
StopFrames ==
    {TcpFrame(1, 0, 6, 1, <<FuncCodeReadHoldingRegisters, 0, 0, 0, 1>>),
     TcpFrame(8, 0, 6, 1, <<FuncCodeReadHoldingRegisters, 0>>)}

ConnSteps(c) == ConnLoop(c) \/ ConnHeader(c) \/ ConnBody(c)

NextTcpServer ==
    \/ TcpStart
    \/ \E c \in Conns : AcceptConn(c)
    \/ AcceptSpawn
    \/ \E c \in Conns : ConnSteps(c)
    \/ \E c \in Conns : ClientDial(c)
    \/ \E c \in Conns, frame \in ClientFrames : ClientSend(c, frame)
    \/ \E c \in Conns : ClientClose(c)

SpecTcpServer == InitTcpServing /\ [][NextTcpServer]_vars

\* SpecTcpAlign: the TCP server with clients that send whole frames only: a
\* request, and frames whose header is rejected for its protocol id or its
\* length, one of them with a body
AlignFrames ==
    {TcpFrame(1, 0, 6, 1, <<FuncCodeReadHoldingRegisters, 0, 0, 0, 1>>),
     TcpFrame(5, 1, 6, 1, <<FuncCodeReadHoldingRegisters, 0, 0, 0, 1>>),
     TcpFrame(6, 0, 1, 1, <<>>),
     TcpFrame(7, 0, 261, 1, <<>>)}

NextTcpAlign ==
    \/ TcpStart
    \/ \E c \in Conns : AcceptConn(c)
    \/ AcceptSpawn
    \/ \E c \in Conns : ConnSteps(c)
    \/ \E c \in Conns : ClientDial(c)
    \/ \E c \in Conns, frame \in AlignFrames : ClientSend(c, frame)
    \/ \E c \in Conns : ClientClose(c)

SpecTcpAlign == InitTcpServing /\ [][NextTcpAlign]_vars

\* SpecTcpStop: the TCP server with its accept loop, its connections and Stop
NextTcpStop ==
    \/ TcpStart
    \/ StopSteps
    \/ AcceptSteps
    \/ \E c \in Conns : ConnSteps(c)
    \/ \E c \in Conns : ClientDial(c)
    \/ \E c \in Conns, frame \in StopFrames : ClientSend(c, frame)
    \/ \E c \in Conns : ClientClose(c)

SpecTcpStop == InitTcp /\ [][NextTcpStop]_vars

\* SpecTcpStopFair: the goroutines of the server and the caller of Stop keep
\* running: Accept and the reads return when their deadlines pass at the latest
SpecTcpStopFair ==
    /\ SpecTcpStop
    /\ WF_vars(StopSteps)
    /\ WF_vars(AcceptSteps)
    /\ \A c \in Conns : WF_vars(ConnSteps(c))

\* the peer closes or resets the connection: what it had received is dropped
PeerClose ==
    /\ conn # 0
    /\ peerClosed # conn
    /\ peerClosed' = conn
    /\ wire' = <<>>
    /\ UNCHANGED <<kind, IdleTimeout, framing, sentID, srv, life, pend, rx, local, callv, ret, now>>

\* SpecRecover: one caller on a TCP handler whose peer answers every request
\* it gets, until it closes the connection; a write on a connection the peer
\* has closed fails, and a new dial reaches the peer again
NextRecover ==
    \/ Operation(1, ReadOne)
    \/ \E p \in {1} : Begin(p)
    \/ \E p \in {1}, ok \in DialOutcomes : Connected(p, ok)
    \/ \E p \in {1} : Written(p, conn # peerClosed)
    \/ TcpReads({1})
    \/ conn # peerClosed /\ PeerRespond("ok", FALSE)
    \/ PeerDeliver
    \/ PeerClose
    \/ TimerFire
    \/ closeIdle
    \/ Tick

SpecRecover == InitTcp /\ [][NextRecover]_vars

\* SpecSerial: an RTU or ASCII server on its pty, a client that writes one
\* request at a time, and a caller of Stop
SerialStopSteps ==
    \/ SerialStopSignal
    \/ SerialStopClose
    \/ \E elapsed \in BOOLEAN : SerialStopJoin(elapsed)

NextSerial ==
    \/ \E k \in Serial, id \in SlaveIDs : NewSerialServer(k, id)
    \/ SerialStart
    \/ SerialStopSteps
    \/ ServeLoop
    \/ \E e \in {"EOF", "other"} : ReadClosed(e)
    \/ ReadTimeout
    \/ ServeFrame
    \/ \E id \in SlaveIDs, pdu \in SerialRequests : SerialClientSend(id, pdu)

SpecSerial == InitTcp /\ [][NextSerial]_vars

\* SpecSerialFair: the caller of Stop keeps running and the second of its
\* timer passes; nothing is assumed of the serving goroutine, whose read on a
\* pty need not return
SpecSerialFair == SpecSerial /\ WF_vars(SerialStopSteps)

\* the largest quantity the claim at hand allows for an operation
MaxQuantity(op) ==
    CASE op \in {"ReadCoils", "ReadDiscreteInputs"} -> 2000
      [] op = "WriteMultipleCoils" -> 1968
      [] op = "WriteMultipleRegisters" -> 123
      [] OTHER -> 125

\* the calls of SpecFacade: every operation, with its arguments at, inside
\* and outside the limits
FacadeCalls ==
    {Args(op, 0, q, 0, 1) :
        op \in {"ReadCoils", "ReadDiscreteInputs", "WriteMultipleCoils"},
        q \in {0, 1, 1968, 1969, 2000, 2001, 65535}}
    \cup {Args(op, 0, q, 0, wq) :
        op \in {"ReadHoldingRegisters", "ReadInputRegisters", "WriteMultipleRegisters",
                "ReadWriteMultipleRegisters"},
        q \in {0, 1, 123, 124, 125, 126}, wq \in {1}}
    \cup {Args("ReadWriteMultipleRegisters", 0, 1, 0, wq) : wq \in {0, 121, 122}}
    \cup {Args(op, 0, 1, v, 1) :
        op \in {"WriteSingleCoil", "WriteSingleRegister"}, v \in {0, 1, 65280, 65535}}
    \cup {Args(op, 0, 1, 0, 1) : op \in {"MaskWriteRegister", "ReadFIFOQueue"}}

\* SpecFacade: one caller issuing facade operations on a TCP client whose
\* peer answers every request correctly or with an exception response
NextFacade ==
    \/ \E rq \in FacadeCalls : Operation(1, rq)
    \/ CommonSteps({1})
    \/ TcpReads({1})
    \/ \E v \in {"ok", "exception"} : PeerRespond(v, FALSE)
    \/ PeerDeliver

SpecFacade == InitTcp /\ [][NextFacade]_vars

(* -------------------------------- claims ------------------------------ *)
\* the Send of caller p takes a step (it goes from one blocking call to the
\* next, or returns)
StepOf(p) ==
    /\ pc[p] # "idle"
    /\ pc'[p] # pc[p] \/ <<data, deadline>>' # <<data, deadline>>

\* the callers whose Send is between acquiring the mutex and returning
Sending == {p \in Procs : pc[p] \in InSend}

\* C1: Sends on one transport (TCP, RTU, ASCII) are mutually exclusive: at
\* most one caller is between acquiring the mutex and returning, that caller
\* holds the mutex, and every other caller that has called Send is still
\* waiting for the lock, so no write or read of two calls interleave.
C1_SendMutualExclusion ==
    /\ Cardinality(Sending) <= 1
    /\ \A p \in Sending : mu = p
    /\ \A p \in Procs : (mu # 0 /\ mu # p) => pc[p] \in {"idle", "lock"}

\* C1's case: one caller waits for its response while the other has called
\* Send and waits for the mutex
C1_Witness ==
    /\ pc[1] \in {"header", "readmin", "read"}
    /\ pc[2] = "lock"
    /\ wire # <<>>

\* C2 (the claim as stated): on TCP, a Send that returns a frame returns the
\* response to its own request, also after an earlier Send returned an error
\* with its response unread: the leftover is drained, never returned.
C2_LeftoverDrained ==
    \A p \in Procs :
        (kind = "tcp" /\ pc[p] = "idle" /\ sendRes[p].err = NoErr)
            => sendRes[p].adu = TcpResponse(aduRequest[p], "ok")

\* the three MBAP fields Verify compares are equal in request and response
SameIds(req, rsp) ==
    /\ Uint16(rsp, 0) = Uint16(req, 0)
    /\ Uint16(rsp, 2) = Uint16(req, 2)
    /\ rsp[7] = req[7]

\* C3: a TCP operation whose Send returned a frame succeeds only if the
\* frame's transaction id, protocol id and unit id equal the request's;
\* Verify accepts exactly the frames with the three fields equal, and any
\* mismatch makes the operation fail with ProtocolError.
C3_VerifyIds ==
    \A p \in Procs :
        (kind = "tcp" /\ pc[p] = "idle" /\ sendRes[p].err = NoErr) =>
            /\ (tcpVerify(aduRequest[p], sendRes[p].adu) = NoErr)
                    <=> SameIds(aduRequest[p], sendRes[p].adu)
            /\ result[p].err = NoErr => SameIds(aduRequest[p], sendRes[p].adu)
            /\ ~SameIds(aduRequest[p], sendRes[p].adu)
                    => result[p].err = ErrProtocolError /\ result[p].results = <<>>

\* C3's case: Send returned a whole frame whose unit id is not the request's
C3_Witness ==
    /\ pc[1] = "idle"
    /\ sendRes[1].err = NoErr
    /\ Len(sendRes[1].adu) > tcpHeaderSize
    /\ sendRes[1].adu[7] # aduRequest[1][7]
    /\ result[1].err = ErrProtocolError

\* the response buffer d of caller p is not yet a whole response
Incomplete(p, d) ==
    IF kind = "rtu"
    THEN \/ Len(d) < rtuMinSize
         \/ d[2] = aduRequest[p][2] /\ Len(d) < calculateResponseLength(aduRequest[p])
    ELSE Len(d) < asciiMaxSize /\ ~(Len(d) > asciiMinSize /\ EndsFrame(d))

\* C4: on RTU and ASCII, once the context is cancelled the next check point
\* Send reaches (the lock, after connect, after the write, after the delay,
\* before each further read) ends the call: Send returns, without calling
\* the next I/O, the cancellation error (or the error of the I/O that has
\* just failed); when a read has just returned only a part of the response,
\* no further read is started and Send returns the cancellation error.
C4_SerialCancel ==
    [][\A p \in Procs :
        (kind \in Serial /\ ctx[p] /\ StepOf(p)) =>
            /\ pc'[p] = "idle"
            /\ pc[p] \in {"lock", "delay"} => sendRes'[p].err = ErrCancelled
            /\ pc[p] = "connect" => sendRes'[p].err \in {ErrCancelled, ErrConnect}
            /\ pc[p] = "write" => sendRes'[p].err \in {ErrCancelled, ErrWrite}
            /\ (pc[p] \in {"readmin", "readrest", "read"} /\ rx # <<>>
                    /\ Incomplete(p, data \o rx))
                    => sendRes'[p].err = ErrCancelled /\ sendRes'[p].adu = <<>>]_vars

\* C4's case: the device delivered the first part of an RTU response, the
\* read returned it, and Send returned the cancellation error with the rest
\* of the response still to come
C4_Witness ==
    /\ kind = "rtu"
    /\ pc[1] = "idle"
    /\ ctx[1]
    /\ sendRes[1].err = ErrCancelled
    /\ rx = <<>>
    /\ Len(pend) = 2

\* C5 (the claim as stated): on TCP, once the context is cancelled, the next
\* I/O boundary Send reaches (connect returned, the write returned, the
\* header read returned) ends the call instead of starting the next write or
\* read.
C5_TcpCancel ==
    [][\A p \in Procs :
        (kind = "tcp" /\ ctx[p] /\ StepOf(p) /\ pc[p] \in {"lock", "connect", "write", "header"})
            => pc'[p] = "idle"]_vars

\* C6: closeIdle runs with the mutex free, and it closes the connection
\* (leaving none) exactly when now - lastActivity >= IdleTimeout, otherwise it
\* leaves the connection as it is; while a Send holds the mutex the
\* connection it uses is never closed.
C6_CloseIdle ==
    [][/\ (fired' = fired - 1) =>
            /\ mu = 0
            /\ (conn # 0 /\ now - lastActivity >= IdleTimeout)
                    => conn' = 0 /\ closedBy' = "closeIdle"
            /\ ~(now - lastActivity >= IdleTimeout) => conn' = conn
            /\ (conn' = 0) <=> (conn = 0 \/ now - lastActivity >= IdleTimeout)
       /\ (mu # 0 /\ conn # 0) => conn' = conn]_vars

\* C6's case: the timer fired after an idle period and closeIdle closed the
\* connection
C6_Witness ==
    /\ closedBy = "closeIdle"
    /\ conn = 0
    /\ mu = 0
    /\ now - lastActivity >= IdleTimeout

\* C7 (the claim as stated): the idle close never closes the connection
\* sooner than IdleTimeout after a Send that got past its write has returned.
C7_KeptOpenAfterSend ==
    [][(fired' = fired - 1 /\ conn # 0 /\ conn' = 0 /\ retAt >= 0)
            => now - retAt >= IdleTimeout]_vars

\* C8: a dial happens only when the transport holds no connection, and a
\* connection that is held is replaced by nothing but its Close; so as long
\* as nothing has closed the connection it has been opened at most once, and
\* every Send and Connect after the first successful one uses that connection.
C8_DialOnlyWithoutConnection ==
    [][/\ dials' # dials => (conn = 0 /\ dials' = dials + 1 /\ conn' = dials')
       /\ (conn # 0 /\ conn' # conn) => (conn' = 0 /\ closedBy' = "Close")
       /\ closedBy = "none" => dials <= 1 /\ conn = dials]_vars

\* C8's case: both callers' Sends have returned a response, on the one
\* connection the first of them opened
C8_Witness ==
    /\ sendRes[1].err = NoErr
    /\ sendRes[2].err = NoErr
    /\ closedBy = "none"
    /\ dials = 1
    /\ conn = 1

\* C9 (the claim as stated): when the header read of TCP Send returns, a
\* length field L with L <= 1 or L > tcpMaxLength - tcpHeaderSize + 1 ends
\* Send with ProtocolError and no body read; otherwise the body read is for
\* L - 1 bytes, for a frame of 6 + L bytes that fits the tcpMaxLength buffer.
C9_LengthField ==
    [][\A p \in Procs :
        (kind = "tcp" /\ pc[p] = "header" /\ Len(rx) >= tcpHeaderSize /\ rx' # rx) =>
            LET L == Uint16(rx, 4) IN
            IF L <= 1 \/ L > tcpMaxLength - tcpHeaderSize + 1
            THEN pc'[p] = "idle" /\ sendRes'[p].err = ErrProtocolError
            ELSE /\ pc'[p] = "body"
                 /\ target' - tcpHeaderSize = L - 1
                 /\ target' = 6 + L
                 /\ target' <= tcpMaxLength]_vars

\* the argument of the call rq is outside the range of its operation
OutOfRange(rq) ==
    CASE rq.op \in {"ReadCoils", "ReadDiscreteInputs", "ReadHoldingRegisters",
                    "ReadInputRegisters", "WriteMultipleCoils", "WriteMultipleRegisters"} ->
            rq.quantity \notin 1..MaxQuantity(rq.op)
      [] rq.op = "ReadWriteMultipleRegisters" ->
            rq.quantity \notin 1..125 \/ rq.writeQuantity \notin 1..121
      [] rq.op = "WriteSingleCoil" -> rq.value \notin {0, 65280}
      [] OTHER -> FALSE

\* C10: a facade call with an out-of-range argument returns InvalidData
\* (WriteSingleCoil) or InvalidQuantity (the others) at once: nothing is
\* encoded (the transaction counter and the request frame are unchanged),
\* Send is not called, nothing is dialed and nothing is written; a call with
\* its arguments in range does encode and call Send.
C10_GuardsBeforeIO ==
    [][\A p \in Procs :
        (ncalls'[p] = ncalls[p] + 1) =>
            IF OutOfRange(call'[p])
            THEN /\ result'[p].err = (IF call'[p].op = "WriteSingleCoil"
                                      THEN ErrInvalidData ELSE ErrInvalidQuantity)
                 /\ result'[p].results = <<>>
                 /\ pc'[p] = "idle"
                 /\ UNCHANGED <<transactionID, aduRequest, conn, dials, wire, mu>>
            ELSE /\ pc'[p] = "lock"
                 /\ transactionID' = transactionID + 1]_vars

\* C10's case: after a call that was sent and answered, a call with an
\* out-of-range quantity has been refused, the counter still that of the
\* first call and its request the only one written
C10_Witness ==
    /\ ncalls[1] = 2
    /\ result[1].err = ErrInvalidQuantity
    /\ OutOfRange(call[1])
    /\ transactionID = 1
    /\ sendRes[1] = NoSend
    /\ conn # 0

\* C11: a facade operation whose response passed Verify and Decode and
\* carries the request's function code with the high bit set returns a
\* ModbusError with the response's function code and the exception code of
\* data[0], and no result bytes.
C11_ExceptionResponse ==
    \A p \in Procs :
        (/\ kind = "tcp" /\ pc[p] = "idle" /\ sendRes[p].err = NoErr
         /\ tcpVerify(aduRequest[p], sendRes[p].adu) = NoErr
         /\ tcpDecode(sendRes[p].adu).err = NoErr
         /\ sendRes[p].adu[8] = aduRequest[p][8] + 128)
        => /\ result[p].err = ErrModbus
           /\ result[p].results = <<>>
           /\ result[p].FunctionCode = sendRes[p].adu[8]
           /\ result[p].ExceptionCode = sendRes[p].adu[9]

\* C11's case: the peer answered a WriteMultipleRegisters with exception 2
C11_Witness ==
    /\ pc[1] = "idle"
    /\ call[1].op = "WriteMultipleRegisters"
    /\ sendRes[1].err = NoErr
    /\ sendRes[1].adu[8] = FuncCodeWriteMultipleRegisters + 128
    /\ result[1].err = ErrModbus
    /\ result[1].ExceptionCode = 2

\* the number of result bytes the quantity of the read call rq implies
ExpectedBytes(rq) ==
    IF rq.op \in {"ReadCoils", "ReadDiscreteInputs"} THEN (rq.quantity + 7) \div 8
    ELSE 2 * rq.quantity

ReadOps == {"ReadCoils", "ReadDiscreteInputs", "ReadHoldingRegisters",
            "ReadInputRegisters", "ReadWriteMultipleRegisters"}

\* C12 (the claim as stated): a read operation that succeeds returns the
\* number of bytes its quantity implies (ceil(q/8) for bits, 2*q for
\* registers); a response with the request's function code and any other
\* byte count makes it fail with InvalidResponse.
C12_ByteCountOfQuantity ==
    \A p \in Procs :
        (kind = "tcp" /\ pc[p] = "idle" /\ call[p].op \in ReadOps
         /\ sendRes[p].err = NoErr /\ Len(sendRes[p].adu) > tcpHeaderSize + 1
         /\ tcpVerify(aduRequest[p], sendRes[p].adu) = NoErr
         /\ tcpDecode(sendRes[p].adu).err = NoErr
         /\ sendRes[p].adu[8] = aduRequest[p][8])
        => IF sendRes[p].adu[9] = ExpectedBytes(call[p])
              /\ Len(sendRes[p].adu) = tcpHeaderSize + 2 + ExpectedBytes(call[p])
           THEN result[p].err = NoErr
                /\ Len(result[p].results) = ExpectedBytes(call[p])
           ELSE result[p].err = ErrInvalidResponse

\* SpecFraming: a PDU goes through the Encode of a packager, over a wire that
\* may damage the frame, and through Verify and Decode
NextFraming ==
    \/ FramerEncode
    \/ \E c \in DamageKinds : FramerDamage(c)
    \/ FramerDecode

SpecFraming == InitFraming /\ [][NextFraming]_vars

\* C13: for each client packager (MBAP, RTU, ASCII) and each PDU that fits
\* the frame size limit, Encode succeeds, and Decode of the frame Encode
\* made succeeds and gives the function code and the data bytes of the PDU.
C13_DecodeEncode ==
    /\ (framing.stage = "failed") => Len(framing.pdu.Data) > rtuMaxSize - 4
    /\ (framing.stage = "out" /\ framing.damage = "none"
            /\ Len(framing.pdu.Data) <= rtuMaxSize - 4)
        => /\ framing.out.err = NoErr
           /\ framing.out.FunctionCode = framing.pdu.FunctionCode
           /\ framing.out.Data = framing.pdu.Data

\* C13's case: the RTU frame of the longest PDU has been decoded
C13_Witness ==
    /\ framing.packager = "rtu"
    /\ framing.stage = "out"
    /\ framing.damage = "none"
    /\ Len(framing.adu) = rtuMaxSize
    /\ framing.out.Data = framing.pdu.Data

\* what C14 calls an acceptable frame: a colon, CRLF at the end, an odd
\* length of at least 9 characters, and hex text whose last byte is the LRC of
\* the bytes before it
WellFormedAscii(adu) ==
    /\ Len(adu) >= 9
    /\ Len(adu) % 2 = 1
    /\ adu[1] = 58
    /\ SubSeq(adu, Len(adu) - 1, Len(adu)) = asciiEnd
    /\ LET h == hexDecode(SubSeq(adu, 2, Len(adu) - 2))
       IN  /\ ~h.err
           /\ h.bytes[Len(h.bytes)] = (256 - ByteSum(Take(h.bytes, Len(h.bytes) - 1))) % 256

\* C14: the client (Verify, then Decode) and the simulator (Decode) accept an
\* ASCII frame exactly when it is well formed; a frame of 9 characters with
\* slave id, function code and LRC but no data is accepted by both
C14_AsciiAccepts ==
    (framing.packager = "ascii" /\ framing.stage = "out")
        => /\ (framing.out.err = NoErr) <=> WellFormedAscii(framing.adu)
           /\ (framing.sim.err = NoErr) <=> WellFormedAscii(framing.adu)

\* the transaction id of the frame adu
IdOf(adu) == Uint16(adu, 0)

\* C15: every Encode takes the next value of the counter, the k-th increment
\* gives the request the transaction id k mod 2^16 (the first one id 1), and
\* the id differs from the id of every request encoded before it that a
\* caller still holds, also when another caller's request is still on its way
C15_DistinctIds ==
    [][\A p \in Procs :
        (aduRequest'[p] # aduRequest[p] \/ transactionID' # transactionID)
            => /\ transactionID' = transactionID + 1
               /\ aduRequest'[p] # aduRequest[p]
                    => /\ IdOf(aduRequest'[p]) = transactionID' % 65536
                       /\ transactionID = 0 => IdOf(aduRequest'[p]) = 1
                       /\ \A q \in Procs : aduRequest[q] # <<>>
                                => IdOf(aduRequest'[p]) # IdOf(aduRequest[q])]_vars

\* C15's case: two callers have encoded their requests before either Send
\* has begun, and the counter has passed 2^16 between the two
C15_Witness ==
    /\ pc[1] = "lock" /\ pc[2] = "lock"
    /\ transactionID = 65536
    /\ {IdOf(aduRequest[1]), IdOf(aduRequest[2])} = {65535, 0}

\* C16 (the claim as stated): each request written to the TCP connection
\* carries a transaction id that follows, modulo 2^16, the id of the request
\* written before it, whichever callers issued the two
C16_IdsIncrease ==
    [][(kind = "tcp" /\ Len(wire') = Len(wire) + 1 /\ sentID # -1)
            => (sentID' - sentID) % 65536 \in 1..32767]_vars

\* address and quantity of the range a write request (5, 6, 15, 16) stores into
WrittenAddress(w) == Uint16(w.Data, 0)
WrittenQuantity(w) ==
    IF w.FunctionCode \in {FuncCodeWriteSingleCoil, FuncCodeWriteSingleRegister} THEN 1
    ELSE Uint16(w.Data, 2)

\* coil i (from 0) of the write request w
WrittenCoil(w, i) ==
    IF w.FunctionCode = FuncCodeWriteSingleCoil THEN Uint16(w.Data, 2) = 65280
    ELSE (w.Data[6 + i \div 8] \div (2 ^ (i % 8))) % 2 = 1

\* register i (from 0) of the write request w
WrittenRegister(w, i) ==
    IF w.FunctionCode = FuncCodeWriteSingleRegister THEN Uint16(w.Data, 2)
    ELSE Uint16(w.Data, 5 + 2 * i)

\* the read request over the range of the write request w
ReadBack(w) ==
    ReadReq(IF w.FunctionCode \in {FuncCodeWriteSingleCoil, FuncCodeWriteMultipleCoils}
            THEN FuncCodeReadCoils ELSE FuncCodeReadHoldingRegisters,
            WrittenAddress(w), WrittenQuantity(w))

\* the data of the response C17 describes for reading back what w wrote
PackedAsWritten(w) ==
    LET q == WrittenQuantity(w)
        coil(i) == IF i < q /\ WrittenCoil(w, i) THEN 2 ^ (i % 8) ELSE 0
    IN  IF w.FunctionCode \in {FuncCodeWriteSingleCoil, FuncCodeWriteMultipleCoils}
        THEN <<(q + 7) \div 8>> \o
             [k \in 1..((q + 7) \div 8) |->
                coil(8 * k - 8) + coil(8 * k - 7) + coil(8 * k - 6) + coil(8 * k - 5)
                + coil(8 * k - 4) + coil(8 * k - 3) + coil(8 * k - 2) + coil(8 * k - 1)]
        ELSE <<2 * q>> \o
             [k \in 1..(2 * q) |->
                IF k % 2 = 1 THEN WrittenRegister(w, (k - 1) \div 2) \div 256
                ELSE WrittenRegister(w, (k - 1) \div 2) % 256]

\* C17: once a write request (5, 15, 6, 16) has succeeded and nothing has been
\* stored since, a read request over the written range is answered with the
\* written values: the byte count 2*q and each register high byte first, or
\* the byte count ceil(q/8) and coil i at bit i mod 8 of byte i div 8, the
\* unused high bits of the last byte zero
C17_ReadBack ==
    (lastWrite # NoPDU /\ srvRequest = ReadBack(lastWrite))
        => srvResponse = PDU(srvRequest.FunctionCode, PackedAsWritten(lastWrite))

\* C17's case: nine coils written from two bytes with every bit set, then read
\* back as two bytes of which the second holds one bit
C17_Witness ==
    /\ lastWrite = WriteCoilsReq(0, 9, <<255, 255>>)
    /\ srvRequest = ReadReq(FuncCodeReadCoils, 0, 9)
    /\ srvResponse.Data = <<2, 255, 1>>

\* the banks of d other than those named in banks are the same in e
OnlyChanges(banks, d, e) ==
    /\ "coils" \notin banks => e.coils = d.coils
    /\ "holdingRegs" \notin banks => e.holdingRegs = d.holdingRegs
    /\ e.discreteInputs = d.discreteInputs
    /\ e.inputRegs = d.inputRegs

\* C18: whatever the request, the discrete inputs and the input registers stay
\* as they were configured; a read request (1-4) changes no bank, a coil write
\* (5, 15) only the coils, a register write (6, 16, 22, 23) only the holding
\* registers, and any other function code nothing
C18_BanksWritten ==
    [][LET fc == srvRequest'.FunctionCode IN
        /\ ds'.discreteInputs = dsConfig.DiscreteInputs
        /\ \A a \in 0..65535 \cap (DOMAIN dsConfig.InputRegs \cup DOMAIN ds'.inputRegs) :
                RegAt(ds'.inputRegs, a) = RegAt(dsConfig.InputRegs, a)
        /\ OnlyChanges(IF fc \in {FuncCodeWriteSingleCoil, FuncCodeWriteMultipleCoils}
                       THEN {"coils"}
                       ELSE IF fc \in {FuncCodeWriteSingleRegister,
                                       FuncCodeWriteMultipleRegisters,
                                       FuncCodeMaskWriteRegister,
                                       FuncCodeReadWriteMultipleRegisters}
                       THEN {"holdingRegs"}
                       ELSE {}, ds, ds')]_vars

\* C18's case: a configured datastore after two writes, one to the coils and
\* one to the holding registers
C18_Witness ==
    /\ dsConfig = SampleConfig
    /\ writes = 2
    /\ ds.coils # dsConfig.Coils
    /\ ds.holdingRegs # dsConfig.HoldingRegs
    /\ ds.discreteInputs = {0, 8, 65535}
    /\ srvResponse.FunctionCode = srvRequest.FunctionCode

\* the quantities of the request req that have a limit, each with its limit
QuantitiesOf(req) ==
    CASE req.FunctionCode \in {FuncCodeReadCoils, FuncCodeReadDiscreteInputs} ->
            {<<Uint16(req.Data, 2), 2000>>}
      [] req.FunctionCode \in {FuncCodeReadHoldingRegisters, FuncCodeReadInputRegisters} ->
            {<<Uint16(req.Data, 2), 125>>}
      [] req.FunctionCode = FuncCodeWriteMultipleCoils -> {<<Uint16(req.Data, 2), 1968>>}
      [] req.FunctionCode = FuncCodeWriteMultipleRegisters -> {<<Uint16(req.Data, 2), 123>>}
      [] req.FunctionCode = FuncCodeReadWriteMultipleRegisters ->
            {<<Uint16(req.Data, 2), 125>>, <<Uint16(req.Data, 6), 121>>}
      [] OTHER -> {}

\* the shortest data of a request of function code fc that holds its quantities
HeaderLen(fc) ==
    IF fc = FuncCodeReadWriteMultipleRegisters THEN 9
    ELSE IF fc \in {FuncCodeWriteMultipleCoils, FuncCodeWriteMultipleRegisters} THEN 5
    ELSE 4

\* req is a read or multiple-write request with its quantity fields
Quantified(req) ==
    /\ req.FunctionCode \in {FuncCodeReadCoils, FuncCodeReadDiscreteInputs,
                              FuncCodeReadHoldingRegisters, FuncCodeReadInputRegisters,
                              FuncCodeWriteMultipleCoils, FuncCodeWriteMultipleRegisters,
                              FuncCodeReadWriteMultipleRegisters}
    /\ Len(req.Data) >= HeaderLen(req.FunctionCode)

\* C19: a read or write request with a quantity of 0 or above the limit of
\* its function code (2000, 125, 1968, 123, read 125 and write 121) is answered
\* with the exception IllegalDataValue, at any address, and so never with
\* IllegalDataAddress
C19_QuantityFirst ==
    (Quantified(srvRequest)
            /\ \E c \in QuantitiesOf(srvRequest) : c[1] = 0 \/ c[1] > c[2])
        => srvResponse = PDU(srvRequest.FunctionCode + 128, <<3>>)

\* C19's case: quantity 0 at the last address, where no range fits either
C19_Witness ==
    /\ srvRequest = ReadReq(FuncCodeReadHoldingRegisters, 65535, 0)
    /\ srvResponse = PDU(FuncCodeReadHoldingRegisters + 128, <<3>>)

\* the ranges (address, quantity) the request req names
RangesOf(req) ==
    IF req.FunctionCode = FuncCodeReadWriteMultipleRegisters
    THEN {<<Uint16(req.Data, 0), Uint16(req.Data, 2)>>,
          <<Uint16(req.Data, 4), Uint16(req.Data, 6)>>}
    ELSE {<<Uint16(req.Data, 0), Uint16(req.Data, 2)>>}

\* the data of a multiple write is as long as its quantity and byte count say
WellFormed(req) ==
    CASE req.FunctionCode = FuncCodeWriteMultipleCoils ->
            /\ req.Data[5] = (Uint16(req.Data, 2) + 7) \div 8
            /\ Len(req.Data) = 5 + req.Data[5]
      [] req.FunctionCode = FuncCodeWriteMultipleRegisters ->
            /\ req.Data[5] = 2 * Uint16(req.Data, 2)
            /\ Len(req.Data) = 5 + req.Data[5]
      [] req.FunctionCode = FuncCodeReadWriteMultipleRegisters ->
            /\ req.Data[9] = 2 * Uint16(req.Data, 6)
            /\ Len(req.Data) = 9 + req.Data[9]
      [] OTHER -> TRUE

Orders(n) == {f \in [1..n -> 1..n] : \A i, j \in 1..n : i # j => f[i] # f[j]}

\* a write, executed as a whole on the datastore d
StoreApply(d, o) ==
    CASE o.op = "WriteSingleRegister" -> WriteSingleRegister(d, o.address, o.values[1]).ds
      [] o.op = "WriteMultipleRegisters" -> WriteMultipleRegisters(d, o.address, o.values).ds
      [] o.op = "WriteMultipleCoils" -> WriteMultipleCoils(d, o.address, o.values).ds
      [] o.op = "MaskWriteRegister" ->
            MaskWriteRegister(d, o.address, o.values[1], o.values[2]).ds
      [] OTHER -> d

\* the datastore after the writes executed one at a time, from the k-th of the order on
RECURSIVE SerialResult(_, _, _, _)
SerialResult(d, ops, order, k) ==
    IF k > Len(ops) THEN d
    ELSE SerialResult(StoreApply(d, ops[order[k]]), ops, order, k + 1)

\* bit b of the uint16 v
Bit(v, b) == (v \div (2 ^ b)) % 2

\* C21: a mask write stores, bit by bit, the current bit where and_mask has a
\* 1 and the bit of or_mask where and_mask has a 0; and whenever no write is
\* under way the datastore is what the writes that have returned give when
\* they are executed one after the other in some order, so that no update of
\* concurrent mask writes and register writes to one address is lost
C21_SerialMaskWrites ==
    /\ \A t \in Tasks :
            (task[t].op = "MaskWriteRegister" /\ task[t].pc = "in" /\ task[t].i = 2)
                => \A b \in 0..15 :
                        Bit(RegAt(ds.holdingRegs, task[t].address), b)
                            = IF Bit(task[t].values[1], b) = 1 THEN Bit(task[t].got[1], b)
                              ELSE Bit(task[t].values[2], b)
    /\ dsMu.w = 0
            => \E order \in Orders(Len(committed)) :
                    ds = SerialResult(NewDataStore(dsConfig), committed, order, 1)

\* C21's case: two mask writes and a register write to address 0 from both
\* goroutines, each called before any of them had returned, all kept
C21_Witness ==
    /\ Len(committed) = 3
    /\ {committed[k].op : k \in 1..3} = {"MaskWriteRegister", "WriteSingleRegister"}
    /\ {committed[k].pc : k \in 1..3} = Tasks
    /\ committed[1].since = 0 /\ committed[2].since = 0
    /\ committed[1].pc # committed[2].pc
    /\ RegAt(ds.holdingRegs, 0) = 11

\* the values at address.. of a bank of the datastore d, as a read returns them
BankValues(d, o, n) ==
    [k \in 1..n |-> IF o.op = "ReadCoils" THEN ((o.address + k - 1) % 65536) \in d.coils
                     ELSE RegAt(d.holdingRegs, (o.address + k - 1) % 65536)]

\* C22: what a read of several registers or coils has copied is, at every
\* moment and when it returns, the content the datastore had at its start or
\* after a write had returned: all old or all new values, never a mixture of
\* the two halves of a multiple write
C22_ReadsWholeWrites ==
    \A t \in Tasks :
        (task[t].op \in StoreReads /\ task[t].pc \in {"in", "done"})
            => \E d \in versions \cup {NewDataStore(dsConfig)} :
                    task[t].got = BankValues(d, task[t], Len(task[t].got))

\* C22's case: a read of registers 0 and 1 that was called before the write
\* of both had returned, and returns the two new values
C22_Witness ==
    \E t \in Tasks :
        /\ task[t].op = "ReadHoldingRegisters" /\ task[t].pc = "done"
        /\ task[t].since = 0
        /\ task[t].got = <<5, 6>>
        /\ \E k \in 1..Len(committed) : committed[k].op = "WriteMultipleRegisters"

\* the per-address overrides a DelayConfigSet has for the bank of a register type
OverridesOf(set, regType) ==
    CASE regType = "coils" -> set.Coils
      [] regType = "discreteInputs" -> set.DiscreteInputs
      [] regType = "holdingRegs" -> set.HoldingRegs
      [] regType = "inputRegs" -> set.InputRegs

\* C29: GetDelayConfig returns the override that the bank of the register
\* type has for the address when there is one, otherwise the global entry of
\* the register type, otherwise nothing; what other banks, other register
\* types and other addresses are configured with has no part in the result
C29_DelayLookup ==
    delayCall.method # "none"
        => LET regType == delayCall.regType
               address == delayCall.address
           IN  IF delayConfig = None THEN delayCall.cfg = None
               ELSE IF address \in DOMAIN OverridesOf(delayConfig[1], regType)
               THEN delayCall.cfg = Some(OverridesOf(delayConfig[1], regType)[address])
               ELSE IF regType \in DOMAIN delayConfig[1].Global
               THEN delayCall.cfg = Some(delayConfig[1].Global[regType])
               ELSE delayCall.cfg = None

\* C29's case: holding register 100 has an override and holding registers a
\* global entry, and the lookup returns the override
C29_Witness ==
    /\ delayCall.method = "GetDelayConfig"
    /\ delayCall.regType = "holdingRegs" /\ delayCall.address = 100
    /\ delayConfig # None
    /\ "holdingRegs" \in DOMAIN delayConfig[1].Global
    /\ delayCall.cfg = Some(DelayConfig("200ms", 20, 0))
    /\ delayConfig[1].Global["holdingRegs"] = DelayConfig("50ms", 10, 0)

\* the delay string of a policy is not empty and time.ParseDuration rejects it
InvalidDelay(c) == c.Delay # "" /\ c.Delay \notin {"10ms", "50ms", "200ms", "0s"}

AnsweredUpTo(c, k) ==
    Cardinality({j \in 1..k : sconn[c].reqs[j].written})

\* C23: on every connection of the TCP server, each request that was read with
\* protocol id 0 and a length from 2 to tcpMaxLength and that the dispatcher
\* answered has exactly one response frame, written in the order of the
\* requests, with the request's transaction id, protocol id and unit id, the
\* length 2 + len(response data), and the response PDU after the header; only
\* a write that fails, which ends the connection, leaves a request without one
C23_OneResponseInOrder ==
    \A c \in Conns :
        /\ Len(sconn[c].out) = AnsweredUpTo(c, Len(sconn[c].reqs))
        /\ \A k \in 1..Len(sconn[c].reqs) :
                LET q == sconn[c].reqs[k]
                    f == sconn[c].out[AnsweredUpTo(c, k)]
                IN  /\ q.hdr.protocolID = 0 /\ q.hdr.length >= 2 /\ q.hdr.length <= 260
                    /\ (q.response # NoPDU /\ ~q.written)
                        => sconn[c].pc = "closed" /\ sconn[c].eof /\ k = Len(sconn[c].reqs)
                    /\ q.written
                        => /\ Uint16(f, 0) = q.hdr.transactionID
                           /\ Uint16(f, 2) = q.hdr.protocolID
                           /\ Uint16(f, 4) = 2 + Len(q.response.Data)
                           /\ f[7] = q.hdr.unitID
                           /\ From(f, 7) = <<q.response.FunctionCode>> \o q.response.Data

\* C23's case: a connection on which the request with transaction id 2 and
\* unit id 7 and then the request with transaction id 1 and unit id 1 were
\* answered
C23_Witness ==
    \E c \in Conns :
        /\ Len(sconn[c].out) = 2
        /\ sconn[c].reqs[1].hdr = Header(2, 0, 6, 7)
        /\ sconn[c].reqs[2].hdr = Header(1, 0, 6, 1)
        /\ Take(sconn[c].out[1], 7) = <<0, 2, 0, 0, 0, 5, 7>>
        /\ Take(sconn[c].out[2], 7) = <<0, 1, 0, 0, 0, 5, 1>>

\* C25: with the policy timeoutProbability = 1.0 for holding register 200, a
\* ReadHoldingRegisters(200, 1) request that the TCP server has dispatched is
\* not answered
C25_TimeoutNotAnswered ==
    delayConfig = TimeoutPolicy
        => \A c \in Conns : \A k \in 1..Len(sconn[c].reqs) :
                sconn[c].reqs[k].pdu = PDU(FuncCodeReadHoldingRegisters, <<0, 200, 0, 1>>)
                    => sconn[c].reqs[k].response = NoPDU

\* the accept loop and every handleConnection have returned
TcpServerDone ==
    /\ acceptPc \in {"none", "done"}
    /\ \A c \in Conns : sconn[c].pc \in {"none", "dialed", "closed"}

\* C27: once TCPServer.Stop has closed the stop channel, the accept loop and
\* every connection goroutine eventually return and Stop returns; and Stop
\* returns only when all of them have, a connection that Accept returned
\* while Stop was under way included
C27_StopWaitsForAll ==
    /\ [](stopPc = "returned" => TcpServerDone)
    /\ (stopChan ~> TcpServerDone)
    /\ (stopChan ~> stopPc = "returned")

\* C27's case: Stop has returned, and a connection that Accept returned after
\* the stop channel was closed has been handled and closed
C27_Witness ==
    /\ stopPc = "returned"
    /\ \E c \in Conns : sconn[c].late /\ sconn[c].pc = "closed"

\* the slave id a serial request frame is addressed to
FrameSlave(k, adu) == IF k = "rtu" THEN adu[1] ELSE readHex(From(adu, 1))

\* C26: the RTU and ASCII servers dispatch a correctly framed request exactly
\* when its slave id is the configured one or the broadcast id 0; a request
\* that is not dispatched gets no response and leaves the banks as they were
C26_SlaveFilter ==
    srvFrame # NoFrame =>
        /\ srvFrame.dispatched <=>
                FrameSlave(srvSerial.kind, srvFrame.adu) \in {srvSerial.slaveID, 0}
        /\ ~srvFrame.dispatched => srvFrame.response = <<>> /\ ~srvFrame.changed

C31_OneIdleTimer ==
    /\ [](/\ closeTimer.made <= 1
          /\ IdleTimeout <= 0 =>
                closeTimer.made = 0 /\ closeTimer.at = -1 /\ fired = 0 /\ closedBy # "closeIdle")
    /\ [][closeTimer.made = 1 /\ closeTimer' # closeTimer =>
                closeTimer'.made = 1 /\ closeTimer'.at \in {-1, now + IdleTimeout}]_vars

\* the connection was closed for idleness and a later Send has connected again
\* and armed the timer the first Send made
C31_Witness ==
    /\ closedBy = "closeIdle"
    /\ conn = 2
    /\ closeTimer.made = 1
    /\ closeTimer.at = now + IdleTimeout

\* C32: RTU Send reads on from the first 4 bytes to the expected length when
\* byte 1 is the request's function code, and to exactly 5 bytes when byte 1
\* is the request's function code | 0x80, so that an exception response is
\* returned as a complete frame of 5 bytes however its bytes arrive
C32_RtuTargetLength ==
    (kind = "rtu" /\ pc[1] = "idle" /\ sendRes[1].err = NoErr /\ Len(sendRes[1].adu) >= rtuMinSize) =>
        /\ sendRes[1].adu[2] = aduRequest[1][2] =>
                Len(sendRes[1].adu) = calculateResponseLength(aduRequest[1])
        /\ sendRes[1].adu[2] = aduRequest[1][2] + 128 =>
                Len(sendRes[1].adu) = rtuExceptionSize

\* the bound of a response frame of the transporter
MaxSize == IF kind = "rtu" THEN rtuMaxSize ELSE asciiMaxSize

\* C33: RTU and ASCII Send never loop forever: as long as the port reads
\* return, a Send that was called returns; every iteration of a read loop
\* that does not end the Send has added at least one byte, and neither the
\* buffer nor the frame returned exceeds 256 bytes (RTU) or 513 bytes (ASCII)
C33_SendTerminates ==
    /\ pc[1] # "idle" ~> pc[1] = "idle"
    /\ [](Len(data) <= MaxSize /\ Len(sendRes[1].adu) <= MaxSize)
    /\ [][pc[1] \in {"readmin", "readrest", "read"}
            /\ pc'[1] \in {"readmin", "readrest", "read"} /\ <<pc, data, deadline>>' # <<pc, data, deadline>>
          => Len(data') > Len(data)]_vars

\* a Send has returned after the device sent the first bytes of a response
\* and stalled; another has returned a frame of the largest size
C33_Witness ==
    /\ pc[1] = "idle"
    /\ ncalls[1] = 2
    /\ Len(sendRes[1].adu) = MaxSize
    /\ now > 0

\* C34: a request answered with an exception response leaves the four banks of
\* the datastore as they were before the request, whatever its function code,
\* ReadWriteMultipleRegisters with a valid write range and a read range
\* beyond the address space included
C34_ExceptionLeavesBanks ==
    [][requests' = requests + 1 /\ srvResponse'.FunctionCode >= 128 => ds' = ds]_vars

\* C35: ReadWriteMultipleRegisters is atomic on the server: its write is
\* applied before its read and no write of another connection takes effect
\* between the two, so the registers of the read range that lie in the range
\* just written are answered with the values this request wrote
C35_ReadWriteAtomic ==
    \A t \in Tasks :
        LET rq == readWrite[t] IN
        (rq.stage = "read" /\ task[t].pc = "done" /\ ~task[t].err) =>
            \A i \in 1..rq.readQuantity :
                LET k == rq.readAddress + i - rq.writeAddress IN
                k \in 1..Len(rq.values) => task[t].got[i] = rq.values[k]

\* C36: a client transport recovers from a broken connection: after a Send
\* has failed because the peer closed or reset the connection, the next Send
\* on the transport dials a new connection, also when it follows within less
\* than the idle timeout
C36_RecoversFromBrokenConn ==
    [][(/\ pc[1] = "connect" /\ pc'[1] = "write"
        /\ sendRes[1].err = ErrWrite
        /\ conn # 0 /\ conn = peerClosed)
       => conn' # conn]_vars

C38_AlignedAfterReject ==
    \A c \in Conns :
        /\ sconn[c].pc = "body" =>
                \E frame \in AlignFrames :
                    sconn[c].hdr = Header(Uint16(frame, 0), Uint16(frame, 2),
                                          Uint16(frame, 4), frame[7])
        /\ sconn[c].pc = "closed" => sconn[c].eof

\* C39: a response the RTU or ASCII server writes carries the slave id of the
\* request it answers, which is what the client's Verify compares, also when
\* the request is addressed to the broadcast id 0
C39_ResponseSlaveID ==
    (srvFrame.dispatched /\ srvFrame.response # <<>>) =>
        FrameSlave(srvSerial.kind, srvFrame.response)
            = FrameSlave(srvSerial.kind, srvFrame.adu)

\* C40: a facade operation returns a ModbusError only when the response that
\* passed Verify and Decode carries the request's function code with the high
\* bit set
C40_ExceptionOnlyForErrorCode ==
    \A p \in Procs :
        (kind = "tcp" /\ pc[p] = "idle" /\ result[p].err = ErrModbus)
        => sendRes[p].adu[8] = (aduRequest[p][8] % 128) + 128

====
